---- MODULE Spec2Model ----
(***************************************************************************)
(* A model of the market-data engine of rfeng17/Weavel:                    *)
(*   - MarketData._rate_limit and StockSentiment._rate_limit (the          *)
(*     per-upstream minimum-interval throttles),                           *)
(*   - MarketData.get_buy_sell_volume with its buy/sell TTL cache, the     *)
(*     degradation ladder and the per-trade classification loop,           *)
(*   - MarketData.screen_stocks as far as get_buy_sell_volume uses it.     *)
(*                                                                         *)
(* Time (time.time()) is an integer count of ticks of 1/666 s: in that     *)
(* unit both limiter intervals are exact, 1/2 s = 333 ticks and            *)
(* 1/3.33 s = 200 ticks, and cache_ttl = 10 s = 6660 ticks.                *)
(* Prices and volumes are integers >= 0; None (a JSON null) is the value   *)
(* -1, which no price or volume takes.  Symbols are sequences of           *)
(* one-character strings, so that split('.')[0].upper() and the ticker     *)
(* pattern are computed, not assumed.                                      *)
(***************************************************************************)
EXTENDS Integers, Sequences, FiniteSets, TLC

VARIABLES
    now,                       \* time.time()
    \* ---- rate limiters
    md_lock,                   \* MarketData.lock: 0 (free) or the task holding it
    ss_lock,                   \* StockSentiment.lock
    last_request_time,         \* MarketData.last_request_time (Tradier)
    last_alpaca_request_time,  \* MarketData.last_alpaca_request_time
    ss_last_request_time,      \* StockSentiment.last_request_time
    tpc,                       \* task -> "idle" | "want" | "sleep" | "granted"
    tkind,                     \* task -> "tradier" | "alpaca" | "news"
    tcur,                      \* task -> current_time read inside _rate_limit
    twake,                     \* task -> instant its asyncio.sleep ends
    grants,                    \* history: limiter -> its acquisitions so far (see Granted)
    \* ---- get_buy_sell_volume
    buy_sell_cache,            \* MarketData.buy_sell_cache: symbol -> entry
    world,                     \* what the upstreams answer to the call in progress
    cpc,                       \* the call: "idle" | "running" | "done"
    creq,                      \* its arguments [symbols, force_refresh, supplied]
    ctime,                     \* its current_time (line 335)
    cfetch,                    \* its valid_symbols_to_fetch
    cres,                      \* its results
    cout,                      \* "none" | "returned" | "raised"
    creqs,                     \* history: the upstream requests it sent
    cat,                       \* history: when it returned or raised
    prev,                      \* history: the call before it
    ncalls,                    \* history: calls started
    \* ---- the classification loop, trade by trade
    kin,                       \* [bid, ask, trend, s100] of the symbol
    ktrades,                   \* the trades processed so far
    kst,                       \* buy_volume, sell_volume, recent_buys, recent_sells
    \* ---- _make_api_request: one logical request per task, with its retries
    rattempt,                  \* task -> attempt number (0: no request in progress)
    rwake,                     \* task -> instant its backoff wait ends
    rend,                      \* task -> how its request ended: [how, status]
    rlog,                      \* history: task -> the GETs of its request (how many,
                               \* the first and the last response), its backoff waits,
                               \* and the GETs it has sent per upstream
    \* ---- the trend signal of one symbol, bar by bar
    hin,                       \* the price history request: [ok, candles, quoteFail, quote]
    htrend,                    \* price_trends[symbol]
    \* ---- the market calendar and the lookback window of get_buy_sell_volume
    us_holidays,               \* MarketCalendar.us_holidays, as a set of dates
    lpc,                       \* "idle" | "walk" | "done"
    lnow,                      \* current_time_dt, a UTC instant
    lopen,                     \* is_market_open
    previous_day,              \* get_previous_trading_day's previous_day
    lwindow,                   \* <<start_time, end_time>>
    \* ---- one symbol string, character by character
    sym,                       \* the string
    svalid,                    \* _validate_symbol(sym)
    snorm,                     \* sym.split('.')[0].upper()
    \* ---- the HTTP layer's per-client limiter (src/app.py), for one client
    request_counts,            \* request_counts: client_ip -> <<count, timestamp>>
    hallowed,                  \* history: the requests allowed at the previous
                               \* instant of the clock and at the current one
    hout,                      \* history: "none" | "allowed" | "rejected", the last answer
    \* ---- a second get_buy_sell_volume call, in flight together with the first
    ocall                      \* [pc, req, time, fetch, res, world, out]

limVars == <<md_lock, ss_lock, last_request_time, last_alpaca_request_time,
             ss_last_request_time, tpc, tkind, tcur, twake, grants>>
gbsVars == <<buy_sell_cache, world, cpc, creq, ctime, cfetch, cres, cout, creqs, cat,
             prev, ncalls>>
clsVars == <<kin, ktrades, kst>>
reqVars == <<rattempt, rwake, rend, rlog>>
trdVars == <<hin, htrend>>
calVars == <<us_holidays, lpc, lnow, lopen, previous_day, lwindow>>
symVars == <<sym, svalid, snorm>>
webVars == <<request_counts, hallowed, hout>>
auxVars == <<reqVars, trdVars, calVars, symVars, webVars, ocall>>
vars == <<now, limVars, gbsVars, clsVars, auxVars>>

(***************************************************************************)
(* Bounds of the model.                                                    *)
(***************************************************************************)
NTasks == 2          \* concurrent tasks calling a limiter
MaxGrants == 5       \* acquisitions requested in the limiter scenario
StartTime == 666     \* time.time() when the process starts (stands for the epoch)
LimHorizon == 1998   \* the limiter scenario's clock stops here
TickStep == 333      \* the limiter scenario's clock advances by 1/2 s

(***************************************************************************)
(* Program constants, in ticks of 1/666 s.                                 *)
(***************************************************************************)
TradierInterval == 333   \* 1 / rate_limit_per_second, rate_limit_per_second = 2
AlpacaInterval == 200    \* 1 / alpaca_rate_limit_per_second = 1 / 3.33

Tasks == 1..NTasks
Kinds == {"tradier", "alpaca", "news"}

Interval(k) == IF k = "tradier" THEN TradierInterval ELSE AlpacaInterval

\* the time-of-last-request attribute a request of kind k reads and sets
LastOf(k) ==
    CASE k = "tradier" -> last_request_time
      [] k = "alpaca"  -> last_alpaca_request_time
      [] k = "news"    -> ss_last_request_time

LockOf(k) == IF k = "news" THEN ss_lock ELSE md_lock

\* MarketData._rate_limit line 61: setattr(self, ref, current_time), where
\* current_time was read before the sleep
MdStamp(current_time, after_sleep) == current_time

\* StockSentiment._rate_limit line 37: self.last_request_time = time.time()
SsStamp(current_time, after_sleep) == after_sleep

Stamp(k, current_time, after_sleep) ==
    IF k = "news" THEN SsStamp(current_time, after_sleep)
                  ELSE MdStamp(current_time, after_sleep)

\* sleep_time = (1 / rate_limit) - time_since_last
SleepTime(k, current_time) == Interval(k) - (current_time - LastOf(k))

SetLast(k, v) ==
    /\ last_request_time' = IF k = "tradier" THEN v ELSE last_request_time
    /\ last_alpaca_request_time' = IF k = "alpaca" THEN v ELSE last_alpaca_request_time
    /\ ss_last_request_time' = IF k = "news" THEN v ELSE ss_last_request_time

SetLock(k, v) ==
    /\ md_lock' = IF k = "news" THEN md_lock ELSE v
    /\ ss_lock' = IF k = "news" THEN v ELSE ss_lock

\* history of one limiter's acquisitions: how many returned, when the first and
\* the latest returned, and the gap between the latest two (-1: fewer than two)
NoGrant == [n |-> 0, first |-> 0, prev |-> 0, gap |-> -1]

Granted(g, at) ==
    [n |-> g.n + 1,
     first |-> IF g.n = 0 THEN at ELSE g.first,
     prev |-> at,
     gap |-> IF g.n = 0 THEN -1 ELSE at - g.prev]

LimInit ==
    /\ md_lock = 0
    /\ ss_lock = 0
    /\ last_request_time = 0
    /\ last_alpaca_request_time = 0
    /\ ss_last_request_time = 0
    /\ tpc = [t \in Tasks |-> "idle"]
    /\ tkind = [t \in Tasks |-> "tradier"]
    /\ tcur = [t \in Tasks |-> 0]
    /\ twake = [t \in Tasks |-> 0]
    /\ grants = [k \in Kinds |-> NoGrant]

\* a task calls _make_api_request, whose first statement awaits _rate_limit
CallLimiter(t, k) ==
    /\ tpc[t] = "idle"
    /\ grants["tradier"].n + grants["alpaca"].n + grants["news"].n
         + Cardinality({u \in Tasks : tpc[u] \in {"want", "sleep"}}) < MaxGrants
    /\ tpc' = [tpc EXCEPT ![t] = "want"]
    /\ tkind' = [tkind EXCEPT ![t] = k]
    /\ UNCHANGED <<gbsVars, clsVars, auxVars>>
    /\ UNCHANGED <<now, md_lock, ss_lock, last_request_time, last_alpaca_request_time,
                   ss_last_request_time, tcur, twake, grants>>

\* async with self.lock: current_time = time.time(); sleep_time = ...;
\* sleep_time <= 0: the attribute is set and the lock released with no suspension
RateLimitPass(t) ==
    /\ tpc[t] = "want"
    /\ LockOf(tkind[t]) = 0
    /\ SleepTime(tkind[t], now) <= 0
    /\ SetLast(tkind[t], Stamp(tkind[t], now, now))
    /\ tpc' = [tpc EXCEPT ![t] = "granted"]
    /\ grants' = [grants EXCEPT ![tkind[t]] = Granted(@, now)]
    /\ UNCHANGED <<gbsVars, clsVars, auxVars>>
    /\ UNCHANGED <<now, md_lock, ss_lock, tkind, tcur, twake>>

\* sleep_time > 0: await asyncio.sleep(sleep_time) with the lock held
RateLimitSleep(t) ==
    /\ tpc[t] = "want"
    /\ LockOf(tkind[t]) = 0
    /\ SleepTime(tkind[t], now) > 0
    /\ SetLock(tkind[t], t)
    /\ tpc' = [tpc EXCEPT ![t] = "sleep"]
    /\ tcur' = [tcur EXCEPT ![t] = now]
    /\ twake' = [twake EXCEPT ![t] = now + SleepTime(tkind[t], now)]
    /\ UNCHANGED <<gbsVars, clsVars, auxVars>>
    /\ UNCHANGED <<now, last_request_time, last_alpaca_request_time,
                   ss_last_request_time, tkind, grants>>

\* a variant of the wake-up that returns from _rate_limit with the lock still held
RateLimitWakeHolding(t) ==
    /\ tpc[t] = "sleep"
    /\ now >= twake[t]
    /\ SetLast(tkind[t], Stamp(tkind[t], tcur[t], now))
    /\ tpc' = [tpc EXCEPT ![t] = "granted"]
    /\ tcur' = [tcur EXCEPT ![t] = 0]
    /\ twake' = [twake EXCEPT ![t] = 0]
    /\ grants' = [grants EXCEPT ![tkind[t]] = Granted(@, now)]
    /\ UNCHANGED <<gbsVars, clsVars, auxVars>>
    /\ UNCHANGED <<now, tkind, md_lock, ss_lock>>

\* the sleep is over: the attribute is set, the lock released, _rate_limit returns
\* (a finished task's locals are dropped: tcur and twake go back to 0)
RateLimitWake(t) ==
    /\ tpc[t] = "sleep"
    /\ now >= twake[t]
    /\ SetLast(tkind[t], Stamp(tkind[t], tcur[t], now))
    /\ SetLock(tkind[t], 0)
    /\ tpc' = [tpc EXCEPT ![t] = "granted"]
    /\ tcur' = [tcur EXCEPT ![t] = 0]
    /\ twake' = [twake EXCEPT ![t] = 0]
    /\ grants' = [grants EXCEPT ![tkind[t]] = Granted(@, now)]
    /\ UNCHANGED <<gbsVars, clsVars, auxVars>>
    /\ UNCHANGED <<now, tkind>>

\* the HTTP GET that follows the acquisition completes (or fails)
HttpDone(t) ==
    /\ tpc[t] = "granted"
    /\ tpc' = [tpc EXCEPT ![t] = "idle"]
    /\ tkind' = [tkind EXCEPT ![t] = "tradier"]
    /\ UNCHANGED <<gbsVars, clsVars, auxVars>>
    /\ UNCHANGED <<now, md_lock, ss_lock, last_request_time, last_alpaca_request_time,
                   ss_last_request_time, tcur, twake, grants>>

LimTick ==
    /\ now + TickStep <= LimHorizon
    /\ now' = now + TickStep
    /\ UNCHANGED <<limVars, gbsVars, clsVars, auxVars>>

(***************************************************************************)
(* _make_api_request (marketdata.py 63-84, sentiment.py 39-51): tenacity's *)
(* retry around one rate-limited GET.  A response is [err, status]: err is *)
(* "none" or the exception the attempt raises.  aiohttp raises             *)
(* ClientResponseError from raise_for_status() for every status >= 400,    *)
(* ContentTypeError (a ClientResponseError) from response.json() for a     *)
(* body of the wrong content type, json.JSONDecodeError for a body that    *)
(* is no JSON.                                                            *)
(***************************************************************************)
stop_after_attempt == 3      \* stop=stop_after_attempt(3)
wait_multiplier == 666       \* wait_exponential(multiplier=1, ...): 1 s
wait_min == 666              \* min=1
wait_max == 6660             \* max=10

Responses ==
    {[err |-> "none", status |-> 200],
     [err |-> "ClientResponseError", status |-> 500],
     [err |-> "ClientResponseError", status |-> 404],
     [err |-> "ContentTypeError", status |-> 200],
     [err |-> "JSONDecodeError", status |-> 200]}

NoResponse == [err |-> "none", status |-> 0]

\* retry=retry_if_exception_type(aiohttp.ClientResponseError)
Retried(resp) == resp.err \in {"ClientResponseError", "ContentTypeError"}

Pow2(n) == IF n <= 0 THEN 1 ELSE 2 ^ n

\* a variant of the backoff that does not grow
WaitConstant(attempt_number) == wait_min

\* wait_exponential(multiplier=1, min=1, max=10) after the attempt_number-th
\* attempt failed: multiplier * 2 ** (attempt_number - 1), clamped to [min, max]
WaitExponential(attempt_number) ==
    LET result == wait_multiplier * Pow2(attempt_number - 1)
    IN  IF result > wait_max THEN wait_max
        ELSE IF result < wait_min THEN wait_min ELSE result

MaxRequests == 2     \* logical requests made in the request scenario
ReqStep == 666       \* its clock advances by 1 s
ReqHorizon == 2664   \* and stops 3 s after the start

\* a task calls _make_api_request(url, params): attempt 1 awaits _rate_limit
ReqCall(t, k) ==
    /\ tpc[t] = "idle"
    /\ Cardinality({u \in Tasks : rattempt[u] > 0 \/ rend[u].how # "none"}) < MaxRequests
    /\ \A u \in Tasks : u < t => (rattempt[u] > 0 \/ rend[u].how # "none")
    /\ rattempt[t] = 0
    /\ rend[t].how = "none"
    /\ rattempt' = [rattempt EXCEPT ![t] = 1]
    /\ tpc' = [tpc EXCEPT ![t] = "want"]
    /\ tkind' = [tkind EXCEPT ![t] = k]
    /\ UNCHANGED <<now, md_lock, ss_lock, last_request_time, last_alpaca_request_time,
                   ss_last_request_time, tcur, twake, grants>>
    /\ UNCHANGED <<rwake, rend, rlog, trdVars, calVars, symVars, webVars, ocall, gbsVars, clsVars>>

\* the GET sent after the acquisition is answered by resp: the request returns the
\* JSON, or waits before the next attempt, or ends in RetryError, or raises resp.err
HttpResponse(t, resp) ==
    /\ tpc[t] = "granted"
    /\ rattempt[t] > 0
    /\ rlog' = [rlog EXCEPT ![t].gets = @ + 1,
                            ![t].first = IF rlog[t].gets = 0 THEN resp ELSE @,
                            ![t].last = resp,
                            ![t].sent[tkind[t]] = @ + 1,
                            ![t].waits = IF Retried(resp) /\ rattempt[t] < stop_after_attempt
                                         THEN Append(@, WaitExponential(rattempt[t]))
                                         ELSE @]
    /\ IF resp.err = "none"
       THEN /\ rend' = [rend EXCEPT ![t] = [how |-> "ok", status |-> resp.status]]
            /\ tpc' = [tpc EXCEPT ![t] = "idle"]
            /\ rattempt' = [rattempt EXCEPT ![t] = 0]
            /\ UNCHANGED rwake
       ELSE IF Retried(resp) /\ rattempt[t] < stop_after_attempt
       THEN /\ rwake' = [rwake EXCEPT ![t] = now + WaitExponential(rattempt[t])]
            /\ tpc' = [tpc EXCEPT ![t] = "backoff"]
            /\ UNCHANGED <<rend, rattempt>>
       ELSE /\ rend' = [rend EXCEPT ![t] =
                           [how |-> IF Retried(resp) THEN "RetryError" ELSE resp.err,
                            status |-> resp.status]]
            /\ tpc' = [tpc EXCEPT ![t] = "idle"]
            /\ rattempt' = [rattempt EXCEPT ![t] = 0]
            /\ UNCHANGED rwake
    /\ UNCHANGED <<now, md_lock, ss_lock, last_request_time, last_alpaca_request_time,
                   ss_last_request_time, tkind, tcur, twake, grants>>
    /\ UNCHANGED <<trdVars, calVars, symVars, webVars, ocall, gbsVars, clsVars>>

\* a variant of the retry that sends the next GET without awaiting _rate_limit
BackoffDoneUnthrottled(t) ==
    /\ tpc[t] = "backoff"
    /\ now >= rwake[t]
    /\ rattempt' = [rattempt EXCEPT ![t] = @ + 1]
    /\ rwake' = [rwake EXCEPT ![t] = 0]
    /\ tpc' = [tpc EXCEPT ![t] = "granted"]
    /\ UNCHANGED <<now, md_lock, ss_lock, last_request_time, last_alpaca_request_time,
                   ss_last_request_time, tkind, tcur, twake, grants>>
    /\ UNCHANGED <<rend, rlog, trdVars, calVars, symVars, webVars, ocall, gbsVars, clsVars>>

\* the backoff wait is over: tenacity calls the function again, which awaits
\* _rate_limit before its GET
BackoffDone(t) ==
    /\ tpc[t] = "backoff"
    /\ now >= rwake[t]
    /\ rattempt' = [rattempt EXCEPT ![t] = @ + 1]
    /\ rwake' = [rwake EXCEPT ![t] = 0]
    /\ tpc' = [tpc EXCEPT ![t] = "want"]
    /\ UNCHANGED <<now, md_lock, ss_lock, last_request_time, last_alpaca_request_time,
                   ss_last_request_time, tkind, tcur, twake, grants>>
    /\ UNCHANGED <<rend, rlog, trdVars, calVars, symVars, webVars, ocall, gbsVars, clsVars>>

\* the clock advances once the event loop has run every task that is ready: one
\* that can take its lock, or whose sleep or backoff wait is over
ReqTick ==
    /\ now + ReqStep <= ReqHorizon
    /\ now' = now + ReqStep
    /\ \A t \in Tasks :
          /\ ~(tpc[t] = "want" /\ LockOf(tkind[t]) = 0)
          /\ ~(tpc[t] = "sleep" /\ now >= twake[t])
          /\ ~(tpc[t] = "backoff" /\ now >= rwake[t])
    /\ UNCHANGED <<limVars, gbsVars, clsVars, auxVars>>

(***************************************************************************)
(* Symbols.  A symbol is a sequence of one-character strings.              *)
(***************************************************************************)
UpperLetters == {"A", "B", "C", "D", "E", "F", "G", "H", "I", "J", "K", "L", "M",
                 "N", "O", "P", "Q", "R", "S", "T", "U", "V", "W", "X", "Y", "Z"}
LowerLetters == {"a", "b"}

\* str.upper() on one character
UpperChar(c) == CASE c = "a" -> "A" [] c = "b" -> "B" [] OTHER -> c

\* index of the first '.' of s, or Len(s) + 1 when it has none
RECURSIVE FirstDot(_, _)
FirstDot(s, i) ==
    IF i > Len(s) THEN Len(s) + 1
    ELSE IF s[i] = "." THEN i ELSE FirstDot(s, i + 1)

\* a variant of the normalization that cuts at the last '.', not the first
NormalizeLastDot(s) ==
    LET dots == {i \in 1..Len(s) : s[i] = "."}
        cut == IF dots = {} THEN Len(s) + 1 ELSE CHOOSE i \in dots : \A j \in dots : j <= i
    IN  [i \in 1..(cut - 1) |-> UpperChar(s[i])]

\* symbol.split('.')[0].upper()
Normalize(s) == [i \in 1..(FirstDot(s, 1) - 1) |-> UpperChar(s[i])]

\* the pattern up to its `$`, matched against the whole of s
MatchesTicker(s) ==
    LET d == FirstDot(s, 1) IN
    /\ d - 1 \in 1..5
    /\ \A i \in 1..(d - 1) : s[i] \in UpperLetters
    /\ \/ d = Len(s) + 1
       \/ /\ Len(s) = d + 1
          /\ s[d + 1] \in UpperLetters

\* _validate_symbol: re.match(r"^[A-Z]{1,5}(\.[A-Z])?$", symbol); `$` matches at
\* the end of the string and also just before a newline that ends the string
ValidateSymbol(s) ==
    \/ MatchesTicker(s)
    \/ /\ s # <<>>
       /\ s[Len(s)] = "\n"
       /\ MatchesTicker(SubSeq(s, 1, Len(s) - 1))

\* [x for x in xs if pred]: the subsequence, order kept
RECURSIVE FilterValid(_)
FilterValid(xs) ==
    IF xs = <<>> THEN <<>>
    ELSE IF ValidateSymbol(Head(xs)) THEN <<Head(xs)>> \o FilterValid(Tail(xs))
         ELSE FilterValid(Tail(xs))

Range(f) == {f[i] : i \in DOMAIN f}

\* d.get(k, default) on a dict modelled as a function
Get(d, k, default) == IF k \in DOMAIN d THEN d[k] ELSE default

\* d[k] = v on a dict modelled as a function
Put(d, k, v) == [x \in DOMAIN d \cup {k} |-> IF x = k THEN v ELSE d[x]]

\* d.pop(k, None)
Pop(d, k) == [x \in DOMAIN d \ {k} |-> d[x]]

EmptyDict == [x \in {} |-> 0]

\* None, a JSON null
None == 0 - 1

\* Python truthiness of a number or None, and `a or b`
Truthy(x) == x # 0 /\ x # None
PyOr(a, b) == IF Truthy(a) THEN a ELSE b

(***************************************************************************)
(* The upstream providers, as one record w per get_buy_sell_volume call:   *)
(*   w.quoteFail   the batched bid/ask quote request raises                *)
(*   w.screenFail  the quote request of screen_stocks raises               *)
(*   w.newsFail    the batched news request raises                         *)
(*   w.quote[s]    Tradier's quote of the requested symbol s: bid, ask,    *)
(*                 last, close, prevclose, volume (a number, or None)      *)
(*   w.cap[s]      _get_approximate_market_cap(s) / 1000                   *)
(*   w.hist[s]     the 5-minute bars request of s: [ok, candles (closes)]  *)
(*   w.bars[s]     the 1-minute bars request of s: [ok, trades], a trade   *)
(*                 being [price, volume]                                   *)
(*   w.news[s]     [found, score]: whether an article carries s, and 100 x *)
(*                 the mean compound score of s's articles                 *)
(* Tradier echoes the requested symbol in each quote.                      *)
(***************************************************************************)

\* screen_stocks lines 287-294: one result tuple (change and change_percentage,
\* which nothing in get_buy_sell_volume reads, are left out)
ScreenRecord(s, w, market_caps) ==
    LET q == w.quote[s]
        symbol == Normalize(s)
        price == PyOr(PyOr(q.last, q.close), 0)
    IN  [symbol |-> symbol,
         price |-> price,
         volume |-> PyOr(q.volume, 0),
         bid |-> PyOr(q.bid, 0),
         ask |-> PyOr(q.ask, 0),
         market_cap |-> Get(market_caps, symbol, 0)]

\* screen_stocks(symbols): the list of result tuples, [] on any failure
ScreenStocks(symbols, w) ==
    LET valid_symbols == FilterValid(symbols) IN
    IF symbols = <<>> \/ valid_symbols = <<>> \/ w.screenFail THEN <<>>
    ELSE LET market_caps == [s \in Range(valid_symbols) |-> w.cap[s]]
             all == [i \in 1..Len(valid_symbols) |->
                        ScreenRecord(valid_symbols[i], w, market_caps)]
             hasSymbol(r) == r.symbol # <<>>
         IN  SelectSeq(all, hasSymbol)

\* quote requests screen_stocks(symbols) sends
ScreenRequests(symbols) == IF FilterValid(symbols) = <<>> THEN 0 ELSE 1

\* last_price * 0.995 and last_price * 1.005
SpreadBid(last_price) == (last_price * 995) \div 1000
SpreadAsk(last_price) == (last_price * 1005) \div 1000

\* get_buy_sell_volume lines 369-377: the loop over the returned quotes, which a
\* TypeError (None * 0.995) leaves with the entries stored so far
RECURSIVE QuoteLoop(_, _, _)
QuoteLoop(syms, w, d) ==
    IF syms = <<>> THEN [d |-> d, err |-> FALSE]
    ELSE LET q == w.quote[Head(syms)]
             symbol == Normalize(Head(syms))
             last_price == PyOr(q.last, q.close)
         IN  IF q.bid = 0 \/ q.ask = 0
             THEN IF last_price = None
                  THEN [d |-> d, err |-> TRUE]
                  ELSE QuoteLoop(Tail(syms), w,
                           Put(d, symbol, <<SpreadBid(last_price), SpreadAsk(last_price)>>))
             ELSE QuoteLoop(Tail(syms), w, Put(d, symbol, <<q.bid, q.ask>>))

\* lines 380-385: every symbol to fetch gets the spread around screen_stocks' price
RECURSIVE BidAskFallback(_, _, _)
BidAskFallback(syms, w, d) ==
    IF syms = <<>> THEN d
    ELSE LET stock_data == ScreenStocks(<<Head(syms)>>, w)
             last_price == IF stock_data # <<>> THEN stock_data[1].price ELSE 0
         IN  BidAskFallback(Tail(syms), w,
                 Put(d, Head(syms), <<SpreadBid(last_price), SpreadAsk(last_price)>>))

\* lines 356-385: bid_ask_data when the caller supplied none
FetchBidAsk(to_fetch, w) ==
    IF w.quoteFail THEN BidAskFallback(to_fetch, w, EmptyDict)
    ELSE LET r == QuoteLoop(to_fetch, w, EmptyDict)
         IN  IF r.err THEN BidAskFallback(to_fetch, w, r.d) ELSE r.d

\* lines 387-392: total_volumes, keyed by the symbol of each screen_stocks tuple
RECURSIVE TotalVolumes(_, _)
TotalVolumes(stock_data, d) ==
    IF stock_data = <<>> THEN d
    ELSE TotalVolumes(Tail(stock_data), Put(d, Head(stock_data).symbol, Head(stock_data).volume))

\* sum(prices[-3:]) and sum(prices[:3])
RECURSIVE SumSeq(_)
SumSeq(xs) == IF xs = <<>> THEN 0 ELSE Head(xs) + SumSeq(Tail(xs))
LastN(xs, n) == SubSeq(xs, IF Len(xs) > n THEN Len(xs) - n + 1 ELSE 1, Len(xs))
FirstN(xs, n) == SubSeq(xs, 1, IF Len(xs) > n THEN n ELSE Len(xs))

\* get_price_history(symbol, frequency_type="minute"): the closes of the candles.
\* When the bars request raises, lines 207-238 build two candles from a quote,
\* (prevclose or last, last), or none when that quote request raises too.
PriceHistory(s, w) ==
    IF w.hist[s].ok THEN w.hist[s].candles
    ELSE IF w.quoteFail THEN <<>>
    ELSE LET q == w.quote[s]
             last_price == PyOr(q.last, q.close)
             prev_close == PyOr(q.prevclose, last_price)
         IN  <<prev_close, last_price>>

\* a variant of the trend that compares the first and last closes of the whole
\* history instead of its last 12 candles
TrendOfAllBars(candles_all) ==
    LET prices == candles_all IN
    IF Len(prices) >= 2
    THEN IF \E i \in 1..Len(prices) : prices[i] = None
         THEN 0
         ELSE LET short3 == SumSeq(LastN(prices, 3))
                  long3 == SumSeq(FirstN(prices, 3))
              IN  IF short3 > long3 THEN 1 ELSE IF short3 < long3 THEN -1 ELSE 0
    ELSE 0

\* a variant of the trend that compares the last close of the window with its first
TrendOfEnds(candles_all) ==
    LET prices == LastN(candles_all, 12) IN
    IF Len(prices) >= 2
    THEN IF \E i \in 1..Len(prices) : prices[i] = None
         THEN 0
         ELSE IF prices[Len(prices)] > prices[1] THEN 1
              ELSE IF prices[Len(prices)] < prices[1] THEN -1 ELSE 0
    ELSE 0

\* lines 428-442: the trend of one symbol
TrendOf(candles_all) ==
    LET prices == LastN(candles_all, 12) IN
    IF Len(prices) >= 2
    THEN IF \E i \in 1..Len(prices) : prices[i] = None
         THEN 0    \* sum() raises TypeError, caught at line 440
         ELSE LET short3 == SumSeq(LastN(prices, 3))    \* 3 * sma_short
                  long3 == SumSeq(FirstN(prices, 3))    \* 3 * sma_long
              IN  IF short3 > long3 THEN 1 ELSE IF short3 < long3 THEN -1 ELSE 0
    ELSE 0

PriceTrends(to_fetch, w) == [s \in Range(to_fetch) |-> TrendOf(PriceHistory(s, w))]

\* fetch_timesales(symbol): the trades, [] when there are none or the request raises
FetchTimesales(s, w) == IF w.bars[s].ok THEN w.bars[s].trades ELSE <<>>

\* a variant of get_stock_sentiment_batch that scores the articles it knows of
\* even when the news request raises
SentimentBatchStale(symbols, w) ==
    [s \in Range(symbols) |-> IF ~w.news[s].found THEN 0 ELSE w.news[s].score]

\* get_stock_sentiment_batch(symbols): 100 x the score of every symbol
SentimentBatch(symbols, w) ==
    [s \in Range(symbols) |->
        IF w.newsFail \/ ~w.news[s].found THEN 0 ELSE w.news[s].score]

\* a variant of the split that halves total_volume whatever the trend
TrendSplitEven(total_volume, trend) ==
    <<total_volume \div 2, total_volume - total_volume \div 2>>

\* lines 499-507, 533-541, 553-561: the trend-skewed split of total_volume
TrendSplit(total_volume, trend) ==
    LET buy_volume == IF trend > 0 THEN (total_volume * 6) \div 10
                      ELSE IF trend < 0 THEN (total_volume * 4) \div 10
                      ELSE total_volume \div 2
    IN  <<buy_volume, total_volume - buy_volume>>

(***************************************************************************)
(* The classification loop, lines 570-608.  Ratios are exact fractions     *)
(* num/den; sentiment_score is carried as s100 = 100 x score.  The code    *)
(* computes the ratios in binary floating point: its truncated products    *)
(* differ from the exact ones only where the exact product is an integer,  *)
(* which the volumes and scores drawn below avoid.                         *)
(***************************************************************************)
momentum_window == 20

Min(a, b) == IF a < b THEN a ELSE b
Max(a, b) == IF a > b THEN a ELSE b

\* a variant of lines 591-597 that weighs the momentum ratio by 1 and does not clamp
BuyRatioUnclamped(recent_buys, recent_sells, trend, s100) ==
    LET total_recent == recent_buys + recent_sells
        mnum == IF total_recent > 0 THEN recent_buys ELSE 1
        mden == IF total_recent > 0 THEN total_recent ELSE 2
        trend10 == IF trend > 0 THEN 6 ELSE IF trend < 0 THEN 4 ELSE 5
    IN  [num |-> 1000 * mnum + mden * (30 * trend10 + (s100 + 100)), den |-> 1000 * mden]

\* lines 591-597: buy_ratio = 0.5 * momentum_buy_ratio + 0.3 * trend_adjustment
\* + 0.2 * sentiment_adjustment, clamped to [0, 1], as the fraction num/den
BuyRatio(recent_buys, recent_sells, trend, s100) ==
    LET total_recent == recent_buys + recent_sells
        mnum == IF total_recent > 0 THEN recent_buys ELSE 1     \* momentum_buy_ratio
        mden == IF total_recent > 0 THEN total_recent ELSE 2    \*   = mnum / mden
        trend10 == IF trend > 0 THEN 6 ELSE IF trend < 0 THEN 4 ELSE 5
        den == 1000 * mden
        num == 500 * mnum + mden * (30 * trend10 + (s100 + 100))
    IN  [num |-> Max(0, Min(den, num)), den |-> den]

\* line 600: int(trade_volume * buy_ratio)
BuyShare(trade_volume, r) == (trade_volume * r.num) \div r.den

\* a variant of line 601 that gives the sell side whatever the buy side left
SellShareRemainder(trade_volume, r) == trade_volume - BuyShare(trade_volume, r)

\* a variant of line 601 that adds the trade's whole volume to the sell side
SellShareWhole(trade_volume, r) == trade_volume

\* line 601: int(trade_volume * sell_ratio), sell_ratio = 1 - buy_ratio
SellShare(trade_volume, r) == (trade_volume * (r.den - r.num)) \div r.den

\* lines 589-590: the recount over trades[i - momentum_window .. i - 1] (k = i + 1)
WindowBuys(trades, k, ask) ==
    Cardinality({j \in (k - momentum_window)..(k - 1) : trades[j].price >= ask})
WindowSells(trades, k, bid) ==
    Cardinality({j \in (k - momentum_window)..(k - 1) : trades[j].price <= bid})

\* a variant of lines 603-608 that never takes a trade off the tally
SlideNever(st, trades, k, bid, ask) == st

\* lines 603-608: the trade leaving the window is taken off the tally
Slide(st, trades, k, bid, ask) ==
    IF k - 1 >= momentum_window
    THEN LET oldest_trade == trades[k - momentum_window] IN
         IF oldest_trade.price >= ask
         THEN [st EXCEPT !.recent_buys = @ - 1]
         ELSE IF oldest_trade.price <= bid
              THEN [st EXCEPT !.recent_sells = @ - 1]
              ELSE st
    ELSE st

ClassifyStart ==
    [buy_volume |-> 0, sell_volume |-> 0, recent_buys |-> 0, recent_sells |-> 0,
     raised |-> FALSE]

\* a variant of the loop body that tests the bid before the ask
ClassifyStepBidFirst(st, trades, k, bid, ask, trend, s100) ==
    LET trade_price == trades[k].price
        trade_volume == trades[k].volume
    IN
    IF st.raised THEN st
    ELSE IF bid = None THEN [st EXCEPT !.raised = TRUE]
    ELSE IF trade_price <= bid
         THEN Slide([st EXCEPT !.sell_volume = @ + trade_volume,
                               !.recent_sells = @ + 1], trades, k, bid, ask)
    ELSE IF ask = None THEN [st EXCEPT !.raised = TRUE]
    ELSE IF trade_price >= ask
         THEN Slide([st EXCEPT !.buy_volume = @ + trade_volume,
                               !.recent_buys = @ + 1], trades, k, bid, ask)
    ELSE LET r == BuyRatio(st.recent_buys, st.recent_sells, trend, s100)
         IN  Slide([st EXCEPT !.buy_volume = @ + BuyShare(trade_volume, r),
                              !.sell_volume = @ + SellShare(trade_volume, r)],
                   trades, k, bid, ask)

\* one iteration of the loop of line 577, on trades[k] (k = i + 1); comparing a
\* price with None raises TypeError
ClassifyStep(st, trades, k, bid, ask, trend, s100) ==
    LET trade_price == trades[k].price
        trade_volume == trades[k].volume
    IN
    IF st.raised THEN st
    ELSE IF ask = None THEN [st EXCEPT !.raised = TRUE]
    ELSE IF trade_price >= ask
         THEN Slide([st EXCEPT !.buy_volume = @ + trade_volume,
                               !.recent_buys = @ + 1], trades, k, bid, ask)
    ELSE IF bid = None THEN [st EXCEPT !.raised = TRUE]
    ELSE IF trade_price <= bid
         THEN Slide([st EXCEPT !.sell_volume = @ + trade_volume,
                               !.recent_sells = @ + 1], trades, k, bid, ask)
    ELSE LET recent_buys == IF k - 1 >= momentum_window
                            THEN WindowBuys(trades, k, ask) ELSE st.recent_buys
             recent_sells == IF k - 1 >= momentum_window
                             THEN WindowSells(trades, k, bid) ELSE st.recent_sells
             r == BuyRatio(recent_buys, recent_sells, trend, s100)
         IN  Slide([st EXCEPT !.buy_volume = @ + BuyShare(trade_volume, r),
                              !.sell_volume = @ + SellShare(trade_volume, r),
                              !.recent_buys = recent_buys,
                              !.recent_sells = recent_sells], trades, k, bid, ask)

\* the whole loop over trades[1..n]
RECURSIVE ClassifyUpTo(_, _, _, _, _, _)
ClassifyUpTo(trades, n, bid, ask, trend, s100) ==
    IF n = 0 THEN ClassifyStart
    ELSE ClassifyStep(ClassifyUpTo(trades, n - 1, bid, ask, trend, s100),
                      trades, n, bid, ask, trend, s100)

Classify(trades, bid, ask, trend, s100) ==
    ClassifyUpTo(trades, Len(trades), bid, ask, trend, s100)

(***************************************************************************)
(* get_buy_sell_volume, lines 322-618.                                     *)
(***************************************************************************)
cache_ttl == 6660    \* self.cache_ttl = 10 (seconds)

CacheEntry(split, timestamp) ==
    [buy_volume |-> split[1], sell_volume |-> split[2], timestamp |-> timestamp]

\* a variant of line 342 that still serves an entry whose age is the TTL
FreshAtTtl(entry, current_time) == current_time - entry.timestamp <= cache_ttl

\* line 342: the entry may be served
Fresh(entry, current_time) == current_time - entry.timestamp < cache_ttl

\* lines 338-346: the cache pass without force_refresh
RECURSIVE CachePass(_, _, _, _)
CachePass(valid_symbols, cache, current_time, acc) ==
    IF valid_symbols = <<>> THEN acc
    ELSE LET symbol == Head(valid_symbols) IN
         IF symbol \in DOMAIN cache /\ Fresh(cache[symbol], current_time)
         THEN CachePass(Tail(valid_symbols), cache, current_time,
                  [acc EXCEPT !.results = Put(@, symbol,
                      <<cache[symbol].buy_volume, cache[symbol].sell_volume>>)])
         ELSE CachePass(Tail(valid_symbols), cache, current_time,
                  [acc EXCEPT !.to_fetch = Append(@, symbol)])

\* lines 350-351: for symbol in valid_symbols: self.buy_sell_cache.pop(symbol, None)
RECURSIVE PopAll(_, _)
PopAll(cache, symbols) ==
    IF symbols = <<>> THEN cache ELSE PopAll(Pop(cache, Head(symbols)), Tail(symbols))

\* a variant of lines 338-354 in which force_refresh is not looked at
GbsBeginCacheFirst(symbols, force_refresh, cache, current_time) ==
    LET r == CachePass(FilterValid(symbols), cache, current_time,
                       [results |-> EmptyDict, to_fetch |-> <<>>])
    IN  [results |-> r.results, to_fetch |-> r.to_fetch, cache |-> cache]

\* lines 323-354: what the call holds when it reaches its first upstream request,
\* or returns without one (to_fetch empty)
GbsBegin(symbols, force_refresh, cache, current_time) ==
    LET valid_symbols == FilterValid(symbols) IN
    IF force_refresh
    THEN [results |-> EmptyDict, to_fetch |-> valid_symbols,
          cache |-> PopAll(cache, valid_symbols)]
    ELSE LET r == CachePass(valid_symbols, cache, current_time,
                            [results |-> EmptyDict, to_fetch |-> <<>>])
         IN  [results |-> r.results, to_fetch |-> r.to_fetch, cache |-> cache]

\* lines 490-513: a symbol whose fetch returned no trade gets the trend split at once
RECURSIVE NoTradePass(_, _, _, _, _, _)
NoTradePass(to_fetch, w, total_volumes, price_trends, current_time, acc) ==
    IF to_fetch = <<>> THEN acc
    ELSE LET symbol == Head(to_fetch) IN
         IF FetchTimesales(symbol, w) # <<>>
         THEN NoTradePass(Tail(to_fetch), w, total_volumes, price_trends, current_time, acc)
         ELSE LET split == TrendSplit(Get(total_volumes, symbol, 0),
                                      Get(price_trends, symbol, 0))
              IN  NoTradePass(Tail(to_fetch), w, total_volumes, price_trends, current_time,
                      [results |-> Put(acc.results, symbol, split),
                       cache |-> Put(acc.cache, symbol, CacheEntry(split, current_time))])

\* lines 525-616: the final loop; a TypeError in the classification ends the call
RECURSIVE FinalLoop(_, _, _, _, _, _, _, _)
FinalLoop(to_fetch, w, bid_ask_data, total_volumes, price_trends, sentiment_scores, current_time, acc) ==
    IF to_fetch = <<>> \/ acc.raised THEN acc
    ELSE LET symbol == Head(to_fetch)
             trades == FetchTimesales(symbol, w)
             ba == Get(bid_ask_data, symbol, <<0, 0>>)
             bid == ba[1]
             ask == ba[2]
             trend == Get(price_trends, symbol, 0)
             total_volume == Get(total_volumes, symbol, 0)
             cl == Classify(trades, bid, ask, trend, Get(sentiment_scores, symbol, 0))
             ladder == bid = 0 \/ ask = 0 \/ trades = <<>>
             split == IF ladder THEN TrendSplit(total_volume, trend)
                      ELSE <<cl.buy_volume, cl.sell_volume>>
         IN  IF ~ladder /\ cl.raised
             THEN [acc EXCEPT !.raised = TRUE]
             ELSE FinalLoop(Tail(to_fetch), w, bid_ask_data, total_volumes, price_trends,
                      sentiment_scores, current_time,
                      [acc EXCEPT !.results = Put(@, symbol, split),
                                  !.cache = Put(@, symbol, CacheEntry(split, current_time))])

\* line 356: the bid_ask_data argument, or what lines 357-385 fetch when it is None
BidAskData(to_fetch, supplied, w) ==
    IF supplied.given THEN supplied.data ELSE FetchBidAsk(to_fetch, w)

\* lines 356-618: the rest of the call, for a non-empty to_fetch.  supplied is
\* the bid_ask_data argument: [given |-> FALSE] for None, else [given, data].
GbsFetch(to_fetch, supplied, results, cache, current_time, w) ==
    LET bid_ask_data == BidAskData(to_fetch, supplied, w)
        total_volumes == TotalVolumes(ScreenStocks(to_fetch, w), EmptyDict)
        price_trends == PriceTrends(to_fetch, w)
        early == NoTradePass(to_fetch, w, total_volumes, price_trends, current_time,
                             [results |-> results, cache |-> cache])
        sentiment_scores == SentimentBatch(to_fetch, w)
    IN  FinalLoop(to_fetch, w, bid_ask_data, total_volumes, price_trends, sentiment_scores,
                  current_time,
                  [results |-> early.results, cache |-> early.cache, raised |-> FALSE])

\* a variant of the request count with one news request per symbol
GbsRequestsNewsEach(to_fetch, supplied, w) ==
    LET n == Len(to_fetch)
        fallback == ~supplied.given /\ (w.quoteFail \/ QuoteLoop(to_fetch, w, EmptyDict).err)
        hist_fallbacks == Cardinality({i \in 1..n : ~w.hist[to_fetch[i]].ok})
    IN  [quotes |-> (IF supplied.given THEN 0 ELSE 1) + (IF fallback THEN n ELSE 0)
                    + ScreenRequests(to_fetch) + hist_fallbacks,
         bars |-> n + n,
         news |-> n]

\* the logical upstream requests the rest of the call sends
GbsRequests(to_fetch, supplied, w) ==
    LET n == Len(to_fetch)
        fallback == ~supplied.given /\ (w.quoteFail \/ QuoteLoop(to_fetch, w, EmptyDict).err)
        hist_fallbacks == Cardinality({i \in 1..n : ~w.hist[to_fetch[i]].ok})
    IN  [quotes |-> (IF supplied.given THEN 0 ELSE 1) + (IF fallback THEN n ELSE 0)
                    + ScreenRequests(to_fetch) + hist_fallbacks,
         bars |-> n + n,
         news |-> 1]

NoRequests == [quotes |-> 0, bars |-> 0, news |-> 0]

(***************************************************************************)
(* The inputs the model draws from.                                        *)
(***************************************************************************)
SymA == <<"A", "A">>          \* a plain ticker
SymB == <<"B", ".", "B">>     \* a ticker with a class suffix, like BRK.B
SymBad == <<"a", "b">>        \* not a ticker: lower case

\* quotes as Tradier may return them
QuoteFull(v) == [bid |-> 198, ask |-> 202, last |-> 200, close |-> None,
                 prevclose |-> 196, volume |-> v]
QuoteNoBidAsk(v) == [bid |-> 0, ask |-> 0, last |-> 200, close |-> None,
                     prevclose |-> 196, volume |-> v]
QuoteNullBid(v) == [bid |-> None, ask |-> 202, last |-> 200, close |-> None,
                    prevclose |-> 196, volume |-> v]
QuoteNoPrice(v) == [bid |-> 0, ask |-> 0, last |-> None, close |-> None,
                    prevclose |-> None, volume |-> v]

HistUp == [ok |-> TRUE, candles |-> <<200, 200, 200, 204>>]
HistDown == [ok |-> TRUE, candles |-> <<204, 204, 204, 200>>]
HistFail == [ok |-> FALSE, candles |-> <<>>]

\* one trade at the ask or above, one inside the spread, one at the bid or below
SomeTrades == <<[price |-> 203, volume |-> 3], [price |-> 200, volume |-> 6],
                [price |-> 197, volume |-> 4]>>
BarsTrades == [ok |-> TRUE, trades |-> SomeTrades]
BarsEmpty == [ok |-> TRUE, trades |-> <<>>]
BarsFail == [ok |-> FALSE, trades |-> <<>>]

NewsGood == [found |-> TRUE, score |-> 50]
NewsNone == [found |-> FALSE, score |-> 0]

YfCap == 3    \* market cap / 1000, as _get_approximate_market_cap resolves it

\* the upstreams' answers about one symbol
SymData(q, h, b, n) == [quote |-> q, hist |-> h, bars |-> b, news |-> n]

MkWorld(dA, dB, quoteFail, screenFail, newsFail) ==
    LET d == [s \in {SymA, SymB, SymBad} |-> IF s = SymB THEN dB ELSE dA] IN
    [quoteFail |-> quoteFail, screenFail |-> screenFail, newsFail |-> newsFail,
     quote |-> [s \in DOMAIN d |-> d[s].quote],
     cap |-> [s \in DOMAIN d |-> YfCap],
     hist |-> [s \in DOMAIN d |-> d[s].hist],
     bars |-> [s \in DOMAIN d |-> d[s].bars],
     news |-> [s \in DOMAIN d |-> d[s].news]]

QuietData == SymData(QuoteFull(7), HistUp, BarsEmpty, NewsNone)
QuietWorld == MkWorld(QuietData, QuietData, FALSE, FALSE, FALSE)

NotSupplied == [given |-> FALSE, data |-> EmptyDict]
Supplied(d) == [given |-> TRUE, data |-> d]

NoCall == [symbols |-> <<>>, force_refresh |-> FALSE, supplied |-> NotSupplied]
NoPrev == [symbols |-> <<>>, results |-> EmptyDict, out |-> "none", start |-> 0, at |-> 0]

(***************************************************************************)
(* One get_buy_sell_volume call at a time: it starts (GbsCall), then, after *)
(* the time its upstream requests take, it completes (GbsComplete).        *)
(***************************************************************************)
GbsIdle ==
    /\ world = QuietWorld
    /\ cpc = "idle"
    /\ creq = NoCall
    /\ ctime = 0
    /\ cfetch = <<>>
    /\ cres = EmptyDict
    /\ cout = "none"
    /\ creqs = NoRequests
    /\ cat = 0

GbsInit ==
    /\ buy_sell_cache = EmptyDict
    /\ GbsIdle
    /\ prev = NoPrev
    /\ ncalls = 0

\* lines 322-354: up to the first upstream request, or the return without one
GbsCall(symbols, force_refresh, supplied, w) ==
    /\ cpc = "idle"
    /\ LET b == GbsBegin(symbols, force_refresh, buy_sell_cache, now) IN
       /\ buy_sell_cache' = b.cache
       /\ cres' = b.results
       /\ cfetch' = b.to_fetch
       /\ cpc' = IF b.to_fetch = <<>> THEN "done" ELSE "running"
       /\ cout' = IF b.to_fetch = <<>> THEN "returned" ELSE "none"
       /\ cat' = IF b.to_fetch = <<>> THEN now ELSE 0
    /\ creq' = [symbols |-> symbols, force_refresh |-> force_refresh, supplied |-> supplied]
    /\ ctime' = now
    /\ world' = w
    /\ creqs' = NoRequests
    /\ ncalls' = ncalls + 1
    /\ UNCHANGED <<now, prev, limVars, clsVars, auxVars>>

\* lines 356-618: the upstream requests, the classification, the return
GbsComplete ==
    /\ cpc = "running"
    /\ LET r == GbsFetch(cfetch, creq.supplied, cres, buy_sell_cache, ctime, world) IN
       /\ buy_sell_cache' = r.cache
       /\ cres' = r.results
       /\ cout' = IF r.raised THEN "raised" ELSE "returned"
    /\ creqs' = GbsRequests(cfetch, creq.supplied, world)
    /\ cpc' = "done"
    /\ cat' = now
    /\ UNCHANGED <<now, world, creq, ctime, cfetch, prev, ncalls, limVars, clsVars, auxVars>>

\* the caller has its answer; the call becomes the previous call
GbsRetire ==
    /\ cpc = "done"
    /\ prev' = [symbols |-> creq.symbols, results |-> cres, out |-> cout,
                 start |-> ctime, at |-> cat]
    /\ world' = QuietWorld
    /\ cpc' = "idle"
    /\ creq' = NoCall
    /\ ctime' = 0
    /\ cfetch' = <<>>
    /\ cres' = EmptyDict
    /\ cout' = "none"
    /\ creqs' = NoRequests
    /\ cat' = 0
    /\ UNCHANGED <<now, buy_sell_cache, ncalls, limVars, clsVars, auxVars>>

(***************************************************************************)
(* Bounds of the cache scenario (Spec): calls, clock, inputs.              *)
(***************************************************************************)
MaxCalls == 2          \* calls made
CacheStep == 3330      \* the clock advances by 5 s
CacheHorizon == 14000  \* and stops 20 s after the start

GbsTick ==
    /\ now + CacheStep <= CacheHorizon
    /\ now' = now + CacheStep
    /\ UNCHANGED <<limVars, gbsVars, clsVars, auxVars>>

ValidSet(symbols) == Range(FilterValid(symbols))

CacheReqs == {<<SymA>>, <<SymB, SymA>>}
CacheWorlds ==
    {MkWorld(d, d, FALSE, FALSE, FALSE) :
        d \in {SymData(QuoteFull(5), HistUp, BarsEmpty, NewsNone),
               SymData(QuoteFull(7), HistUp, BarsTrades, NewsNone)}}
CacheSupplied(symbols) ==
    {NotSupplied, Supplied([s \in ValidSet(symbols) |-> <<198, 202>>])}

\* no logical request in progress, none made yet
NoLog == [gets |-> 0, first |-> NoResponse, last |-> NoResponse, waits |-> <<>>,
          sent |-> [k \in Kinds |-> 0]]
NoEnd == [how |-> "none", status |-> 0]
ReqIdle ==
    /\ rattempt = [t \in Tasks |-> 0]
    /\ rwake = [t \in Tasks |-> 0]
    /\ rend = [t \in Tasks |-> NoEnd]
    /\ rlog = [t \in Tasks |-> NoLog]

\* no price history asked for yet
NoHist == [ok |-> TRUE, candles |-> <<>>, quoteFail |-> FALSE, last |-> 0, prevclose |-> 0]
TrdIdle ==
    /\ hin = NoHist
    /\ htrend = 0

\* no request received by the HTTP layer
WebIdle ==
    /\ request_counts = EmptyDict
    /\ hallowed = <<0, 0>>
    /\ hout = "none"

\* no second call
NoOther == [pc |-> "idle", req |-> NoCall, time |-> 0, fetch |-> <<>>, res |-> EmptyDict,
            world |-> QuietWorld, out |-> "none"]
OtherIdle == ocall = NoOther

\* no symbol string examined
SymIdle ==
    /\ sym = <<>>
    /\ svalid = FALSE
    /\ snorm = <<>>

\* no lookback window computed, no holiday known
CalIdle ==
    /\ us_holidays = {}
    /\ lpc = "idle"
    /\ lnow = 0
    /\ lopen = FALSE
    /\ previous_day = 0
    /\ lwindow = <<0, 0>>

ClsIdle ==
    /\ kin = [bid |-> 0, ask |-> 0, trend |-> 0, s100 |-> 0]
    /\ ktrades = <<>>
    /\ kst = ClassifyStart

Init == now = StartTime /\ LimInit /\ GbsInit /\ WebIdle /\ OtherIdle /\ ClsIdle /\ ReqIdle /\ TrdIdle /\ CalIdle /\ SymIdle

Next ==
    \/ /\ ncalls < MaxCalls
       /\ \E symbols \in CacheReqs, force_refresh \in BOOLEAN, w \in CacheWorlds :
            \E supplied \in CacheSupplied(symbols) :
                GbsCall(symbols, force_refresh, supplied, w)
    \/ GbsComplete
    \/ GbsRetire
    \/ GbsTick

Spec == Init /\ [][Next]_vars

(***************************************************************************)
(* The ladder scenario (SpecLadder): one call on an empty cache, over      *)
(* every combination of upstream answers below.                            *)
(***************************************************************************)
LadderReqs == {<<SymA>>, <<SymA, SymB>>, <<SymB, SymBad, SymA>>}

QuotesA == {QuoteFull(7), QuoteNoBidAsk(7), QuoteNullBid(7), QuoteNoPrice(7)}
QuotesB == {QuoteFull(5), QuoteNoBidAsk(5)}
DataA(quotes) ==
    {SymData(q, h, b, n) : q \in quotes, h \in {HistUp, HistDown, HistFail},
                           b \in {BarsTrades, BarsEmpty, BarsFail},
                           n \in {NewsGood, NewsNone}}
DataB(quotes) ==
    {SymData(q, h, b, NewsNone) : q \in quotes, h \in {HistUp, HistFail},
                                  b \in {BarsTrades, BarsEmpty, BarsFail}}

LadderWorlds(symbols, quotesA, quotesB) ==
    {MkWorld(dA, dB, qf, sf, nf) :
        dA \in DataA(quotesA),
        dB \in IF SymB \in Range(symbols) THEN DataB(quotesB)
               ELSE {SymData(QuoteFull(5), HistFail, BarsEmpty, NewsNone)},
        qf \in BOOLEAN, sf \in BOOLEAN, nf \in BOOLEAN}

SuppliedPairs == {<<0, 0>>, <<198, 202>>}

LadderCall ==
    /\ ncalls = 0
    /\ \E symbols \in LadderReqs :
          \/ \E w \in LadderWorlds(symbols, QuotesA, QuotesB) :
                GbsCall(symbols, FALSE, NotSupplied, w)
          \/ \E d \in [ValidSet(symbols) -> SuppliedPairs],
                w \in LadderWorlds(symbols, {QuoteFull(7)}, {QuoteFull(5)}) :
                GbsCall(symbols, FALSE, Supplied(d), w)

NextLadder == LadderCall \/ GbsComplete

SpecLadder == Init /\ [][NextLadder]_vars

(***************************************************************************)
(* The two-symbol scenario (SpecScenario): one call for [AAPL, MSFT] on an *)
(* empty cache, every upstream request answered.  Prices are in cents.     *)
(***************************************************************************)
SymAAPL == <<"A", "A", "P", "L">>
SymMSFT == <<"M", "S", "F", "T">>

QuoteAAPL(v) == [bid |-> 18995, ask |-> 19005, last |-> 19000, close |-> None,
                 prevclose |-> 18900, volume |-> v]
QuoteMSFT(v) == [bid |-> 0, ask |-> 0, last |-> 41000, close |-> None,
                 prevclose |-> 41100, volume |-> v]

ScenarioTrades == <<[price |-> 19010, volume |-> 100], [price |-> 18990, volume |-> 50],
                    [price |-> 19020, volume |-> 200]>>

HistFlat == [ok |-> TRUE, candles |-> <<200, 204, 200>>]
ScenarioHists == {HistUp, HistDown, HistFlat, HistFail}
ScenarioVolumes == {5, 7, 1000}

\* the bid_ask_data argument of the scenario
ScenarioBidAsk == [s \in {SymAAPL, SymMSFT} |-> IF s = SymAAPL THEN <<18995, 19005>> ELSE <<0, 0>>]

ScenarioWorlds ==
    {[quoteFail |-> FALSE, screenFail |-> FALSE, newsFail |-> nf,
      quote |-> [s \in {SymAAPL, SymMSFT} |-> IF s = SymAAPL THEN QuoteAAPL(vA) ELSE QuoteMSFT(vM)],
      cap |-> [s \in {SymAAPL, SymMSFT} |-> YfCap],
      hist |-> [s \in {SymAAPL, SymMSFT} |-> IF s = SymAAPL THEN hA ELSE hM],
      bars |-> [s \in {SymAAPL, SymMSFT} |->
                   IF s = SymAAPL THEN [ok |-> TRUE, trades |-> ScenarioTrades] ELSE BarsEmpty],
      news |-> [s \in {SymAAPL, SymMSFT} |-> IF s = SymAAPL THEN nA ELSE NewsNone]] :
        nf \in BOOLEAN, vA \in {350, 1000}, vM \in ScenarioVolumes,
        hA \in ScenarioHists, hM \in ScenarioHists, nA \in {NewsGood, NewsNone}}

ScenarioCall ==
    /\ ncalls = 0
    /\ \E w \in ScenarioWorlds, supplied \in {NotSupplied, Supplied(ScenarioBidAsk)} :
          GbsCall(<<SymAAPL, SymMSFT>>, FALSE, supplied, w)

NextScenario == ScenarioCall \/ GbsComplete

SpecScenario == Init /\ [][NextScenario]_vars

(***************************************************************************)
(* The classification scenario (SpecClassify): the loop of line 577, one   *)
(* trade per step, for one symbol in the third tier (bid and ask known).   *)
(***************************************************************************)
MaxTrades == 3
BidAskPairs == {<<198, 202>>, <<200, 200>>, <<202, 198>>}
TradePrices == {197, 198, 200, 202, 203}
TradeVolumes == {3, 4}

InitClassify ==
    /\ now = StartTime /\ LimInit /\ GbsInit /\ WebIdle /\ OtherIdle /\ ReqIdle /\ TrdIdle /\ CalIdle /\ SymIdle
    /\ \E ba \in BidAskPairs, trend \in {-1, 0, 1}, s100 \in {-100, 0, 50} :
          kin = [bid |-> ba[1], ask |-> ba[2], trend |-> trend, s100 |-> s100]
    /\ ktrades = <<>>
    /\ kst = ClassifyStart

ClassifyTrade(price, volume) ==
    /\ Len(ktrades) < MaxTrades
    /\ ktrades' = Append(ktrades, [price |-> price, volume |-> volume])
    /\ kst' = ClassifyStep(kst, ktrades', Len(ktrades) + 1,
                           kin.bid, kin.ask, kin.trend, kin.s100)
    /\ UNCHANGED <<now, kin, limVars, gbsVars, auxVars>>

NextClassify == \E price \in TradePrices, volume \in TradeVolumes : ClassifyTrade(price, volume)

SpecClassify == InitClassify /\ [][NextClassify]_vars

(***************************************************************************)
(* The trend scenario (SpecTrend): the trend of one symbol, lines 418-442, *)
(* as its 5-minute history grows one candle at a time, or when the history *)
(* request fails and get_price_history falls back on a quote.  Closes are  *)
(* whole numbers (cents); the code sums them as binary floating point      *)
(* numbers.                                                                *)
(***************************************************************************)
MaxCandles == 13
TrendCloses == {200, 204}

\* the upstream answers about the one symbol, built from hin
TrendWorld(h) ==
    [quoteFail |-> h.quoteFail, screenFail |-> FALSE, newsFail |-> FALSE,
     quote |-> [s \in {SymA} |-> [bid |-> 0, ask |-> 0, last |-> h.last, close |-> None,
                                   prevclose |-> h.prevclose, volume |-> 0]],
     cap |-> [s \in {SymA} |-> YfCap],
     hist |-> [s \in {SymA} |-> [ok |-> h.ok, candles |-> h.candles]],
     bars |-> [s \in {SymA} |-> BarsEmpty],
     news |-> [s \in {SymA} |-> NewsNone]]

TrendNow(h) == PriceTrends(<<SymA>>, TrendWorld(h))[SymA]

InitTrend ==
    /\ now = StartTime /\ LimInit /\ GbsInit /\ WebIdle /\ OtherIdle /\ ClsIdle /\ ReqIdle /\ CalIdle /\ SymIdle
    /\ \/ hin = NoHist
       \/ \E quoteFail \in BOOLEAN, last \in {200, 204, None}, prevclose \in {196, 204, None} :
             hin = [ok |-> FALSE, candles |-> <<>>, quoteFail |-> quoteFail,
                    last |-> last, prevclose |-> prevclose]
    /\ htrend = TrendNow(hin)

\* the history has one more candle when the trend is computed
AddCandle(close) ==
    /\ hin.ok
    /\ Len(hin.candles) < MaxCandles
    /\ hin' = [hin EXCEPT !.candles = Append(@, close)]
    /\ htrend' = TrendNow(hin')
    /\ UNCHANGED <<now, limVars, gbsVars, clsVars, reqVars, calVars, symVars, webVars, ocall>>

NextTrend == \E close \in TrendCloses : AddCandle(close)

SpecTrend == InitTrend /\ [][NextTrend]_vars

(***************************************************************************)
(* The market calendar (market_calendar.py) and the lookback window of     *)
(* get_buy_sell_volume, lines 394-416 (SpecCalendar).  A date is a day     *)
(* number, day 0 being a Monday; an instant is a number of minutes since   *)
(* 00:00 UTC of day 0.  US/Eastern is 5 hours behind UTC in the weeks      *)
(* modelled (no daylight saving change).                                   *)
(***************************************************************************)
EasternOffset == 300
MARKET_OPEN_HOUR == 9
MARKET_OPEN_MINUTE == 30
MARKET_CLOSE_HOUR == 16
MARKET_CLOSE_MINUTE == 0

\* instant.astimezone(self.timezone).date()
EasternDate(instant) == (instant - EasternOffset) \div 1440

\* date.weekday(): 0 is Monday, 5 Saturday, 6 Sunday
Weekday(date) == date % 7

\* a variant of is_trading_day that takes Saturday for a trading day
is_trading_day_but_sunday(date) ==
    IF Weekday(date) > 5 THEN FALSE ELSE date \notin us_holidays

\* market_calendar.py lines 10-16
is_trading_day(date) ==
    IF Weekday(date) >= 5 THEN FALSE ELSE date \notin us_holidays

\* lines 25-48: the open and the close of the session of date, as UTC instants
get_market_hours(date, open_hour, open_minute, close_hour, close_minute) ==
    <<date * 1440 + open_hour * 60 + open_minute + EasternOffset,
      date * 1440 + close_hour * 60 + close_minute + EasternOffset>>

\* a variant of is_market_open without the test of line 63
is_market_open_any_day(current_time) ==
    LET current_date == EasternDate(current_time)
        hours == get_market_hours(current_date, 9, 30, 16, 0)
    IN  hours[1] <= current_time /\ current_time <= hours[2]

\* lines 50-79
is_market_open(current_time) ==
    LET current_date == EasternDate(current_time) IN
    IF ~is_trading_day(current_date) THEN FALSE
    ELSE LET hours == get_market_hours(current_date, 9, 30, 16, 0)
         IN  hours[1] <= current_time /\ current_time <= hours[2]

\* a variant of line 20 that starts the walk on the date itself
WalkFromDate(date) == date

\* line 20: previous_day = date - timedelta(days=1)
WalkStart(date) == date - 1

MaxDay == 8                       \* instants are drawn on days 0..MaxDay
EasternMinutes == {0, 569, 570, 600, 960, 961, 1200, 1439}   \* minutes after 00:00 Eastern
Instants == {d * 1440 + m + EasternOffset : d \in 0..MaxDay, m \in EasternMinutes}
HolidaySets == SUBSET {3, 4, 7}   \* a Thursday, a Friday, the Monday after

InitCalendar ==
    /\ now = StartTime /\ LimInit /\ GbsInit /\ WebIdle /\ OtherIdle /\ ClsIdle /\ ReqIdle /\ TrdIdle /\ SymIdle
    /\ us_holidays \in HolidaySets
    /\ lpc = "idle"
    /\ lnow = 0
    /\ lopen = FALSE
    /\ previous_day = 0
    /\ lwindow = <<0, 0>>

\* marketdata.py lines 394-401, or up to the call of line 403 entering line 20
LookbackBegin(current_time_dt) ==
    /\ lpc = "idle"
    /\ lnow' = current_time_dt
    /\ lopen' = is_market_open(current_time_dt)
    /\ IF lopen'
       THEN /\ lwindow' = <<current_time_dt - 30 - 15, current_time_dt - 30>>
            /\ lpc' = "done"
            /\ UNCHANGED previous_day
       ELSE /\ previous_day' = WalkStart(EasternDate(current_time_dt))
            /\ lpc' = "walk"
            /\ UNCHANGED lwindow
    /\ UNCHANGED <<now, us_holidays, limVars, gbsVars, clsVars, reqVars, trdVars, symVars, webVars, ocall>>

\* market_calendar.py lines 21-23: one test of the loop, then one more day back,
\* or the return and marketdata.py lines 404-412
WalkStep ==
    /\ lpc = "walk"
    /\ IF ~is_trading_day(previous_day)
       THEN /\ previous_day' = previous_day - 1
            /\ UNCHANGED <<lpc, lwindow>>
       ELSE /\ lpc' = "done"
            /\ LET hours == get_market_hours(previous_day, MARKET_OPEN_HOUR, MARKET_OPEN_MINUTE,
                                             MARKET_CLOSE_HOUR, MARKET_CLOSE_MINUTE)
                   end_time == hours[2] - 1
               IN  lwindow' = <<end_time - 15, end_time>>
            /\ UNCHANGED previous_day
    /\ UNCHANGED <<now, us_holidays, lnow, lopen, limVars, gbsVars, clsVars, reqVars, trdVars, symVars, webVars, ocall>>

\* the window has been used; the next call computes its own
LookbackEnd ==
    /\ lpc = "done"
    /\ lpc' = "idle"
    /\ lnow' = 0
    /\ lopen' = FALSE
    /\ previous_day' = 0
    /\ lwindow' = <<0, 0>>
    /\ UNCHANGED <<now, us_holidays, limVars, gbsVars, clsVars, reqVars, trdVars, symVars, webVars, ocall>>

NextCalendar ==
    \/ \E current_time_dt \in Instants : LookbackBegin(current_time_dt)
    \/ WalkStep
    \/ LookbackEnd

SpecCalendar == InitCalendar /\ [][NextCalendar]_vars

\* the loop of line 21 runs without awaiting anything: it is never suspended
SpecCalendarFair == SpecCalendar /\ WF_vars(WalkStep)

(***************************************************************************)
(* The symbol scenario (SpecSymbols): _validate_symbol and the             *)
(* normalization of lines 281 and 369, on every string of up to MaxSymLen  *)
(* characters over an upper case letter, a lower case letter, the dot and  *)
(* the newline.                                                            *)
(***************************************************************************)
MaxSymLen == 7
SymChars == {"A", "a", ".", "\n"}

InitSymbols ==
    /\ now = StartTime /\ LimInit /\ GbsInit /\ WebIdle /\ OtherIdle /\ ClsIdle /\ ReqIdle /\ TrdIdle /\ CalIdle
    /\ sym = <<>>
    /\ svalid = ValidateSymbol(<<>>)
    /\ snorm = Normalize(<<>>)

\* the string one character longer is validated and normalized
AppendChar(c) ==
    /\ Len(sym) < MaxSymLen
    /\ sym' = Append(sym, c)
    /\ svalid' = ValidateSymbol(sym')
    /\ snorm' = Normalize(sym')
    /\ UNCHANGED <<now, limVars, gbsVars, clsVars, reqVars, trdVars, calVars, webVars, ocall>>

NextSymbols == \E c \in SymChars : AppendChar(c)

SpecSymbols == InitSymbols /\ [][NextSymbols]_vars

(***************************************************************************)
(* The limiter scenario (SpecLimiter).                                     *)
(***************************************************************************)
InitLimiter == now = StartTime /\ LimInit /\ GbsInit /\ WebIdle /\ OtherIdle /\ ClsIdle /\ ReqIdle /\ TrdIdle /\ CalIdle /\ SymIdle

NextLimiter ==
    \/ \E t \in Tasks, k \in Kinds : CallLimiter(t, k)
    \/ \E t \in Tasks : RateLimitPass(t)
    \/ \E t \in Tasks : RateLimitSleep(t)
    \/ \E t \in Tasks : RateLimitWake(t)
    \/ \E t \in Tasks : HttpDone(t)
    \/ LimTick

SpecLimiter == InitLimiter /\ [][NextLimiter]_vars

(***************************************************************************)
(* The request scenario (SpecRequest): logical requests with their         *)
(* retries, each attempt going through its upstream's limiter.             *)
(***************************************************************************)
NextRequest ==
    \/ \E t \in Tasks, k \in Kinds : ReqCall(t, k)
    \/ \E t \in Tasks : RateLimitPass(t)
    \/ \E t \in Tasks : RateLimitSleep(t)
    \/ \E t \in Tasks : RateLimitWake(t)
    \/ \E t \in Tasks, resp \in Responses : HttpResponse(t, resp)
    \/ \E t \in Tasks : BackoffDone(t)
    \/ ReqTick

SpecRequest == InitLimiter /\ [][NextRequest]_vars

(***************************************************************************)
(* C1: on every limiter (Tradier at 2 req/s, Alpaca at 3.33 req/s), under  *)
(* any interleaving of its callers, two consecutive acquisitions return at *)
(* least 1/rate apart; so at 2 req/s the 5th of 5 acquisitions returns no  *)
(* sooner than 2.0 s (4 intervals) after the 1st.                          *)
(***************************************************************************)
C1_MinInterval ==
    /\ \A k \in Kinds : grants[k].gap = -1 \/ grants[k].gap >= Interval(k)
    /\ grants["tradier"].n = 5 =>
          grants["tradier"].prev - grants["tradier"].first >= 4 * TradierInterval

(***************************************************************************)
(* C2: cache idempotence.  A call with force_refresh = false that starts   *)
(* less than the TTL after an earlier call for the same valid symbols      *)
(* returned sends no upstream request (no quote, bars or news request) and *)
(* returns, for every symbol, the split the earlier call returned.         *)
(***************************************************************************)
C2_CacheIdempotence ==
    (/\ cpc = "done"
     /\ ~creq.force_refresh
     /\ prev.out = "returned"
     /\ ValidSet(prev.symbols) # {}
     /\ ValidSet(creq.symbols) = ValidSet(prev.symbols)
     /\ ctime - prev.at < cache_ttl)
    => /\ cout = "returned"
       /\ creqs = NoRequests
       /\ \A s \in ValidSet(creq.symbols) :
             /\ s \in DOMAIN cres
             /\ s \in DOMAIN prev.results
             /\ cres[s] = prev.results[s]

(***************************************************************************)
(* C3: with force_refresh = true no cached split is returned.  Every valid *)
(* requested symbol loses its cache entry, fresh or stale, before the      *)
(* first upstream request and is fetched; its split is the one computed    *)
(* from this call's upstream data, and when the call returns the cache     *)
(* holds that split for the symbol.                                        *)
(***************************************************************************)
C3_ForceRefresh ==
    creq.force_refresh =>
        /\ cpc = "running" =>
              /\ cres = EmptyDict
              /\ cfetch = FilterValid(creq.symbols)
              /\ \A s \in ValidSet(creq.symbols) : s \notin DOMAIN buy_sell_cache
        /\ (cpc = "done" /\ cout = "returned") =>
              LET fresh == GbsFetch(FilterValid(creq.symbols), creq.supplied,
                                    EmptyDict, EmptyDict, ctime, world)
              IN  /\ creqs # NoRequests
                  /\ \A s \in ValidSet(creq.symbols) :
                        /\ s \in DOMAIN cres
                        /\ cres[s] = fresh.results[s]
                        /\ s \in DOMAIN buy_sell_cache
                        /\ buy_sell_cache[s] = CacheEntry(cres[s], ctime)

\* a forced call has returned while the entry the previous call wrote for one of
\* its symbols was still fresh and held another split
C3_Witness ==
    /\ cpc = "done" /\ cout = "returned"
    /\ creq.force_refresh
    /\ prev.out = "returned"
    /\ ctime - prev.start < cache_ttl
    /\ \E s \in ValidSet(creq.symbols) :
          /\ s \in DOMAIN prev.results
          /\ prev.results[s] # cres[s]

(***************************************************************************)
(* C4: whatever the upstreams answer for a symbol (a failed request, an    *)
(* empty payload, a missing or null bid, ask or last), get_buy_sell_volume *)
(* returns and does not raise, and every valid requested symbol has a      *)
(* split in the result.                                                    *)
(***************************************************************************)
C4_NeverRaises ==
    cpc = "done" =>
        /\ cout = "returned"
        /\ \A s \in ValidSet(creq.symbols) : s \in DOMAIN cres

(***************************************************************************)
(* C5: per-symbol isolation.  In one call over two symbols x and y, the    *)
(* split returned for y is the same whether x's bar request succeeds,      *)
(* returns no bars or fails: y is in the result with the same split under  *)
(* each of the three.                                                      *)
(***************************************************************************)
C5_Isolation ==
    cpc = "done" =>
        \A x \in Range(cfetch), y \in Range(cfetch) :
            x # y =>
                \A b \in {BarsTrades, BarsEmpty, BarsFail} :
                    LET other == GbsFetch(cfetch, creq.supplied, EmptyDict, EmptyDict,
                                          ctime, [world EXCEPT !.bars[x] = b])
                    IN  /\ cout = "returned"
                        /\ ~other.raised
                        /\ y \in DOMAIN cres
                        /\ y \in DOMAIN other.results
                        /\ other.results[y] = cres[y]

(***************************************************************************)
(* C6: every key of the buy/sell cache and of the result map is a          *)
(* normalized symbol, and for every valid requested symbol, a suffixed one *)
(* included, the lookups of the call find what the provider returned for   *)
(* it: its bid/ask, its total volume, its market cap.                      *)
(***************************************************************************)
C6_NormalizedKeys ==
    (/\ cpc = "done" /\ cout = "returned"
     /\ ~creq.supplied.given
     /\ ~world.quoteFail /\ ~world.screenFail
     /\ \A s \in Range(cfetch) : Truthy(world.quote[s].bid) /\ Truthy(world.quote[s].ask))
    => LET bid_ask_data == FetchBidAsk(cfetch, world)
           stock_data == ScreenStocks(cfetch, world)
           total_volumes == TotalVolumes(stock_data, EmptyDict)
       IN  /\ \A k \in DOMAIN buy_sell_cache \cup DOMAIN cres : k = Normalize(k)
           /\ \A s \in Range(cfetch) :
                 /\ Get(bid_ask_data, s, <<0, 0>>) = <<world.quote[s].bid, world.quote[s].ask>>
                 /\ Get(total_volumes, s, 0) = world.quote[s].volume
                 /\ \A i \in 1..Len(stock_data) :
                       stock_data[i].symbol = Normalize(s) =>
                           stock_data[i].market_cap = world.cap[s]

(***************************************************************************)
(* C7: the degradation ladder.  For each symbol fetched the first tier     *)
(* that applies decides the split: (1) bid or ask unavailable (0): buy =   *)
(* floor(total reported volume x r), r = 0.6, 0.4, 0.5 for trend > 0, < 0, *)
(* = 0, sell = the rest; (2) bid/ask available, no trade bars: the same    *)
(* split; (3) otherwise the per-trade classification.                      *)
(***************************************************************************)
C7_Ladder ==
    (cpc = "done" /\ cout = "returned" /\ ~world.screenFail) =>
        LET bid_ask_data == IF creq.supplied.given THEN creq.supplied.data
                            ELSE FetchBidAsk(cfetch, world)
            sentiment_scores == SentimentBatch(cfetch, world)
        IN  \A s \in Range(cfetch) :
                LET ba == Get(bid_ask_data, s, <<0, 0>>)
                    trades == FetchTimesales(s, world)
                    trend == TrendOf(PriceHistory(s, world))
                    reported == PyOr(world.quote[s].volume, 0)
                    r10 == IF trend > 0 THEN 6 ELSE IF trend < 0 THEN 4 ELSE 5
                    buy == (reported * r10) \div 10
                    cl == Classify(trades, ba[1], ba[2], trend, sentiment_scores[s])
                IN  cres[s] = IF ba[1] = 0 \/ ba[2] = 0 \/ trades = <<>>
                              THEN <<buy, reported - buy>>
                              ELSE <<cl.buy_volume, cl.sell_volume>>

(***************************************************************************)
(* C8: for every valid requested symbol whose bid/ask is known and for     *)
(* which no trade bars are returned, buy volume + sell volume is the total *)
(* volume the quote provider reported for the symbol, the remainder of the *)
(* integer split going to sell.                                            *)
(***************************************************************************)
C8_SumIsReportedVolume ==
    (cpc = "done" /\ cout = "returned" /\ ~world.screenFail) =>
        \A s \in Range(cfetch) :
            LET known == IF creq.supplied.given
                         THEN /\ s \in DOMAIN creq.supplied.data
                              /\ creq.supplied.data[s][1] # 0
                              /\ creq.supplied.data[s][2] # 0
                         ELSE /\ ~world.quoteFail
                              /\ Truthy(world.quote[s].bid)
                              /\ Truthy(world.quote[s].ask)
                reported == PyOr(world.quote[s].volume, 0)
            IN  (known /\ FetchTimesales(s, world) = <<>>) =>
                    /\ cres[s][1] + cres[s][2] = reported
                    /\ TrendOf(PriceHistory(s, world)) = 0 => cres[s][1] = reported \div 2

(***************************************************************************)
(* C9 as stated: in the classification loop, for every nonzero bid/ask     *)
(* pair, a trade with price >= ask adds its whole volume to buy_volume and *)
(* nothing to sell_volume, and a trade with price <= bid adds its whole    *)
(* volume to sell_volume and nothing to buy_volume.                        *)
(***************************************************************************)
C9_AsStated ==
    [][Len(ktrades') = Len(ktrades) + 1 =>
          LET trade == ktrades'[Len(ktrades')] IN
          /\ trade.price >= kin.ask =>
                /\ kst'.buy_volume = kst.buy_volume + trade.volume
                /\ kst'.sell_volume = kst.sell_volume
          /\ trade.price <= kin.bid =>
                /\ kst'.sell_volume = kst.sell_volume + trade.volume
                /\ kst'.buy_volume = kst.buy_volume]_vars

(***************************************************************************)
(* C9 amended: a trade with price >= ask adds its whole volume to          *)
(* buy_volume and nothing to sell_volume, also when price <= bid (a locked *)
(* or crossed quote, bid >= ask); a trade with price <= bid and price <    *)
(* ask adds its whole volume to sell_volume and nothing to buy_volume.     *)
(***************************************************************************)
C9_AskFirst ==
    [][Len(ktrades') = Len(ktrades) + 1 =>
          LET trade == ktrades'[Len(ktrades')] IN
          /\ trade.price >= kin.ask =>
                /\ kst'.buy_volume = kst.buy_volume + trade.volume
                /\ kst'.sell_volume = kst.sell_volume
          /\ (trade.price <= kin.bid /\ trade.price < kin.ask) =>
                /\ kst'.sell_volume = kst.sell_volume + trade.volume
                /\ kst'.buy_volume = kst.buy_volume]_vars

\* under a locked or crossed quote a trade at or above the ask and at or below
\* the bid has been classified
C9_Witness ==
    /\ kin.bid >= kin.ask
    /\ Len(ktrades) = 1
    /\ ktrades[1].price >= kin.ask
    /\ ktrades[1].price <= kin.bid
    /\ kst.buy_volume = ktrades[1].volume

(***************************************************************************)
(* C10 as stated: a mid-spread trade (bid < price < ask) adds floor(volume *)
(* x buy_ratio) to buy_volume and the whole remainder, volume - that, to   *)
(* sell_volume, so its two contributions sum to its volume.                *)
(***************************************************************************)
C10_AsStated ==
    [][Len(ktrades') = Len(ktrades) + 1 =>
          LET k == Len(ktrades')
              trade == ktrades'[k]
              recent_buys == IF k - 1 >= momentum_window
                             THEN WindowBuys(ktrades', k, kin.ask) ELSE kst.recent_buys
              recent_sells == IF k - 1 >= momentum_window
                              THEN WindowSells(ktrades', k, kin.bid) ELSE kst.recent_sells
              r == BuyRatio(recent_buys, recent_sells, kin.trend, kin.s100)
              buy == (trade.volume * r.num) \div r.den
          IN  (kin.bid < trade.price /\ trade.price < kin.ask) =>
                  /\ kst'.buy_volume - kst.buy_volume = buy
                  /\ kst'.sell_volume - kst.sell_volume = trade.volume - buy
                  /\ (kst'.buy_volume - kst.buy_volume)
                         + (kst'.sell_volume - kst.sell_volume) = trade.volume]_vars

(***************************************************************************)
(* C10 amended: a mid-spread trade adds floor(volume x buy_ratio) to       *)
(* buy_volume and floor(volume x (1 - buy_ratio)) to sell_volume, each     *)
(* truncated on its own, so its two contributions sum to its volume or to  *)
(* one less.                                                               *)
(***************************************************************************)
C10_BothTruncated ==
    [][Len(ktrades') = Len(ktrades) + 1 =>
          LET k == Len(ktrades')
              trade == ktrades'[k]
              recent_buys == IF k - 1 >= momentum_window
                             THEN WindowBuys(ktrades', k, kin.ask) ELSE kst.recent_buys
              recent_sells == IF k - 1 >= momentum_window
                              THEN WindowSells(ktrades', k, kin.bid) ELSE kst.recent_sells
              r == BuyRatio(recent_buys, recent_sells, kin.trend, kin.s100)
              buy == kst'.buy_volume - kst.buy_volume
              sell == kst'.sell_volume - kst.sell_volume
          IN  (kin.bid < trade.price /\ trade.price < kin.ask) =>
                  /\ buy = (trade.volume * r.num) \div r.den
                  /\ sell = (trade.volume * (r.den - r.num)) \div r.den
                  /\ buy + sell \in {trade.volume - 1, trade.volume}]_vars

\* a single mid-spread trade has been split and one share of its volume is in
\* neither side
C10_Witness ==
    /\ Len(ktrades) = 1
    /\ kin.bid < ktrades[1].price
    /\ ktrades[1].price < kin.ask
    /\ kst.buy_volume + kst.sell_volume = ktrades[1].volume - 1

(***************************************************************************)
(* C11: one logical API request makes at most 3 GETs.  An attempt that     *)
(* fails with a transient HTTP error (5xx) is followed by a backoff wait,  *)
(* 1 s after the first attempt and 2 s after the second, never above 10 s, *)
(* and by another attempt, until the 3rd; a successful attempt ends the    *)
(* request; after a 3rd failure the request ends in an error that carries  *)
(* the status code of the last attempt.                                    *)
(***************************************************************************)
C11_Retry ==
    \A t \in Tasks :
        LET log == rlog[t] IN
        /\ log.gets <= 3
        /\ Len(log.waits) <= 2
        /\ Len(log.waits) >= 1 => log.waits[1] = 666
        /\ Len(log.waits) >= 2 => log.waits[2] = 1332
        /\ \A i \in 1..Len(log.waits) : log.waits[i] <= 6660
        /\ (log.gets \in 1..2 /\ log.last.status = 500) =>
              /\ rend[t].how = "none"
              /\ Len(log.waits) = log.gets
              /\ tpc[t] = "backoff" \/ rattempt[t] = log.gets + 1
        /\ (log.gets >= 1 /\ log.last.err = "none") =>
              /\ rend[t].how = "ok"
              /\ rattempt[t] = 0
              /\ tpc[t] = "idle"
        /\ (log.gets = 3 /\ log.last.status = 500) =>
              /\ rend[t].how = "RetryError"
              /\ rend[t].status = log.last.status
              /\ rattempt[t] = 0
        /\ rend[t].how = "RetryError" => log.gets = 3

\* a request has failed three times with status 500, after waits of 1 s and 2 s
C11_Witness ==
    \E t \in Tasks :
        /\ rend[t].how = "RetryError"
        /\ rlog[t].first.status = 500
        /\ rlog[t].last.status = 500
        /\ rlog[t].waits = <<666, 1332>>

(***************************************************************************)
(* C12: a non-transient failure (an HTTP 4xx response, or a body that      *)
(* cannot be deserialized) ends the request after exactly one GET, with no *)
(* retry and no backoff wait.                                              *)
(***************************************************************************)
C12_NoRetryOnPermanent ==
    \A t \in Tasks :
        (/\ rlog[t].gets >= 1
         /\ \/ rlog[t].first.status = 404
            \/ rlog[t].first.err \in {"ContentTypeError", "JSONDecodeError"})
        => /\ rlog[t].gets = 1
           /\ rlog[t].waits = <<>>
           /\ rend[t].how # "none"

(***************************************************************************)
(* C13: with force_refresh = false a valid symbol is served from the cache *)
(* if and only if it has an entry and current_time - entry.timestamp <     *)
(* ttl (10 s); then the split served is the entry's.  Otherwise, and so    *)
(* whenever the entry's age is >= ttl, the symbol is not served and is in  *)
(* the list to fetch.  (Stated where the call has gone through the cache   *)
(* and has not yet written to it.)                                         *)
(***************************************************************************)
C13_ServedIffFresh ==
    (/\ ~creq.force_refresh
     /\ cpc = "running" \/ (cpc = "done" /\ cfetch = <<>>))
    => \A s \in ValidSet(creq.symbols) :
          LET hit == /\ s \in DOMAIN buy_sell_cache
                     /\ ctime - buy_sell_cache[s].timestamp < 6660
          IN  /\ hit => /\ s \in DOMAIN cres
                        /\ cres[s] = <<buy_sell_cache[s].buy_volume,
                                       buy_sell_cache[s].sell_volume>>
                        /\ s \notin Range(cfetch)
              /\ ~hit => /\ s \notin DOMAIN cres
                         /\ s \in Range(cfetch)

\* a call finds an entry whose age is exactly the TTL and fetches its symbol again
C13_Witness ==
    /\ cpc = "running"
    /\ ~creq.force_refresh
    /\ \E s \in ValidSet(creq.symbols) :
          /\ s \in DOMAIN buy_sell_cache
          /\ ctime - buy_sell_cache[s].timestamp = 6660
          /\ s \in Range(cfetch)

(***************************************************************************)
(* C14: every split the call computes is stored in the cache under its     *)
(* symbol with the time of the write as its timestamp, so that the entry   *)
(* is fresh for the whole ttl after the call has written it, however long  *)
(* the call took.                                                          *)
(***************************************************************************)
C14_StampedAtWrite ==
    (cpc = "done" /\ cout = "returned" /\ cfetch # <<>>) =>
        \A s \in Range(cfetch) :
            /\ s \in DOMAIN buy_sell_cache
            /\ <<buy_sell_cache[s].buy_volume, buy_sell_cache[s].sell_volume>> = cres[s]
            /\ buy_sell_cache[s].timestamp = cat

(***************************************************************************)
(* C15: all requests to one upstream go through one limiter state.  For    *)
(* Alpaca: a bar request of MarketData and a news request of               *)
(* StockSentiment are granted at least 1/3.33 s apart, whatever the        *)
(* interleaving (stated for the latest grant of each).                     *)
(***************************************************************************)
C15_OneAlpacaLimiter ==
    (grants["alpaca"].n > 0 /\ grants["news"].n > 0) =>
        \/ grants["alpaca"].prev - grants["news"].prev >= 200
        \/ grants["news"].prev - grants["alpaca"].prev >= 200

(***************************************************************************)
(* C16: a limiter lock is held only by a task that is inside _rate_limit,  *)
(* in its enforced sleep; a task whose GET is in flight, or that waits to  *)
(* retry, holds no lock, so that other tasks acquire meanwhile and several *)
(* GETs are in flight at once.                                             *)
(***************************************************************************)
C16_NoLockDuringGet ==
    /\ \A t \in Tasks :
          tpc[t] \in {"granted", "backoff", "idle"} => (md_lock # t /\ ss_lock # t)
    /\ md_lock # 0 => (tpc[md_lock] = "sleep" /\ tkind[md_lock] # "news")
    /\ ss_lock # 0 => (tpc[ss_lock] = "sleep" /\ tkind[ss_lock] = "news")

\* two GETs to the same upstream are in flight, the second acquired after a sleep
\* while the first was already in flight
C16_Witness ==
    /\ tpc[1] = "granted" /\ tpc[2] = "granted"
    /\ tkind[1] = tkind[2]
    /\ grants[tkind[1]].n = 2
    /\ grants[tkind[1]].gap > 0

(***************************************************************************)
(* C17: every GET sent to Tradier or Alpaca, the GET of each retry         *)
(* included, follows an acquisition of its upstream's limiter made for it: *)
(* on each limiter the GETs answered plus the GETs in flight are as many   *)
(* as the acquisitions granted.                                            *)
(***************************************************************************)
C17_AcquireBeforeEveryGet ==
    \A k \in Kinds :
        LET answered[i \in 0..NTasks] ==
                IF i = 0 THEN 0 ELSE answered[i - 1] + rlog[i].sent[k]
            in_flight == Cardinality({t \in Tasks : tpc[t] = "granted" /\ tkind[t] = k})
        IN  answered[NTasks] + in_flight = grants[k].n

\* a request has sent three GETs, two of them retries, to one upstream
C17_Witness ==
    \E t \in Tasks, k \in Kinds :
        /\ rlog[t].gets = 3
        /\ rlog[t].sent[k] = 3
        /\ grants[k].n >= 3

(***************************************************************************)
(* C18: when a get_buy_sell_volume call has completed, no entry of the     *)
(* buy/sell cache has an age of ttl or more: a sweep at the end of the     *)
(* call has removed every such entry.  Stated for the calls that complete  *)
(* at the instant they started, where an entry's age is the same whether   *)
(* it is measured at the call's current_time or at its completion.         *)
(***************************************************************************)
C18_SweptAfterBatch ==
    (cpc = "done" /\ cat = ctime) =>
        \A k \in DOMAIN buy_sell_cache : cat - buy_sell_cache[k].timestamp < cache_ttl

(***************************************************************************)
(* C19: the call for [AAPL, MSFT] with bid/ask AAPL = (189.95, 190.05) and *)
(* MSFT = (0, 0), AAPL bars (190.10, 100), (189.90, 50), (190.20, 200) and *)
(* no bar for MSFT returns AAPL = (300, 50), whose sum is the sum of the   *)
(* bar volumes, and MSFT = the split of its reported volume v by its       *)
(* trend: floor(0.6 v) bought on an up trend, floor(0.4 v) on a down       *)
(* trend, floor(v / 2) on none, the rest sold.                             *)
(***************************************************************************)
C19_Scenario ==
    (cpc = "done" /\ creq.symbols = <<SymAAPL, SymMSFT>>) =>
        LET v == world.quote[SymMSFT].volume
            t == TrendOf(PriceHistory(SymMSFT, world))
            bought == IF t > 0 THEN (6 * v) \div 10
                      ELSE IF t < 0 THEN (4 * v) \div 10 ELSE v \div 2
            bars == world.bars[SymAAPL].trades
        IN  /\ cout = "returned"
            /\ DOMAIN cres = {SymAAPL, SymMSFT}
            /\ cres[SymAAPL] = <<300, 50>>
            /\ cres[SymAAPL][1] + cres[SymAAPL][2] = SumSeq([i \in 1..Len(bars) |-> bars[i].volume])
            /\ cres[SymMSFT] = <<bought, v - bought>>

\* the scenario has returned, MSFT on an up trend with 1000 shares reported
C19_Witness ==
    /\ cpc = "done" /\ cout = "returned"
    /\ creq.symbols = <<SymAAPL, SymMSFT>>
    /\ creq.supplied.given
    /\ cres[SymAAPL] = <<300, 50>>
    /\ cres[SymMSFT] = <<600, 400>>

C21_RatiosInUnitInterval ==
    [][\A price \in TradePrices, volume \in TradeVolumes :
          (ClassifyTrade(price, volume) /\ kin.bid < price /\ price < kin.ask) =>
              LET buy_ratio == BuyRatio(kst.recent_buys, kst.recent_sells, kin.trend, kin.s100)
                  sell_ratio == [num |-> buy_ratio.den - buy_ratio.num, den |-> buy_ratio.den]
              IN  /\ buy_ratio.den > 0
                  /\ 0 <= buy_ratio.num /\ buy_ratio.num <= buy_ratio.den
                  /\ 0 <= sell_ratio.num /\ sell_ratio.num <= sell_ratio.den
                  /\ kst'.buy_volume = kst.buy_volume + (volume * buy_ratio.num) \div buy_ratio.den
                  /\ kst'.sell_volume = kst.sell_volume + (volume * sell_ratio.num) \div sell_ratio.den
      ]_vars

\* a trade inside the spread was split after two trades at the ask, on an up
\* trend with positive news: the largest ratio of the scenario, 0.83
C21_Witness ==
    /\ Len(ktrades) = 3
    /\ kin.bid < kin.ask /\ kin.trend = 1 /\ kin.s100 = 50
    /\ ktrades[1].price >= kin.ask /\ ktrades[2].price >= kin.ask
    /\ kin.bid < ktrades[3].price /\ ktrades[3].price < kin.ask
    /\ kst.buy_volume = ktrades[1].volume + ktrades[2].volume + (83 * ktrades[3].volume) \div 100

(***************************************************************************)
(* C22: the lookback window of the trade bars is [now - 45 min,            *)
(* now - 30 min] when the market is open at now; otherwise it is the last  *)
(* 15 minutes of the most recent completed session: it ends at the close   *)
(* of the latest trading day whose session has closed by now, today        *)
(* included.                                                               *)
(***************************************************************************)
C22_LookbackWindow ==
    lpc = "done" =>
        IF lopen THEN lwindow = <<lnow - 45, lnow - 30>>
        ELSE LET today == EasternDate(lnow)
                 closeOf(d) == d * 1440 + 16 * 60 + EasternOffset
                 completed == {d \in (today - 7)..today :
                                  /\ Weekday(d) < 5 /\ d \notin us_holidays
                                  /\ closeOf(d) <= lnow}
                 session == CHOOSE d \in completed : \A e \in completed : e <= d
             IN  lwindow = <<closeOf(session) - 15, closeOf(session)>>

(***************************************************************************)
(* C27: get_previous_trading_day(date) returns a day d strictly before     *)
(* date that is a trading day, no day strictly between d and date being    *)
(* one; and the walk backwards, once started, ends.                        *)
(***************************************************************************)
C27_PreviousTradingDay ==
    /\ [](  (lpc = "done" /\ ~lopen) =>
              LET date == EasternDate(lnow)
                  trading(d) == Weekday(d) \notin {5, 6} /\ d \notin us_holidays
              IN  /\ previous_day < date
                  /\ trading(previous_day)
                  /\ \A d \in (previous_day + 1)..(date - 1) : ~trading(d))
    /\ (lpc = "walk" ~> lpc = "done")

\* the walk has gone back over two holidays, a weekend and one more holiday
C27_Witness ==
    /\ lpc = "done" /\ ~lopen
    /\ EasternDate(lnow) - previous_day = 6
    /\ us_holidays = {3, 4, 7}

(***************************************************************************)
(* C28: is_market_open(instant) is true exactly when the date of the       *)
(* instant in US/Eastern is a trading day and the instant lies between the *)
(* open and the close, both included, that get_market_hours gives for that *)
(* date with the configured times (Config.MARKET_OPEN_HOUR and the others, *)
(* the arguments of lines 404-410 of get_buy_sell_volume).                 *)
(***************************************************************************)
C28_OpenIffInSession ==
    lpc \in {"walk", "done"} =>
        LET date == EasternDate(lnow)
            hours == get_market_hours(date, MARKET_OPEN_HOUR, MARKET_OPEN_MINUTE,
                                      MARKET_CLOSE_HOUR, MARKET_CLOSE_MINUTE)
            trading == Weekday(date) \notin {5, 6} /\ date \notin us_holidays
        IN  lopen <=> (trading /\ hours[1] <= lnow /\ lnow <= hours[2])

\* the market is found open at the minute of its close, on a Wednesday
C28_Witness ==
    /\ lpc = "done" /\ lopen
    /\ lnow = 2 * 1440 + 16 * 60 + EasternOffset

(***************************************************************************)
(* C29: is_trading_day(date) is false for a Saturday, for a Sunday and for *)
(* a date of the holiday set, and true for every other date: the walk of   *)
(* get_previous_trading_day goes one more day back exactly from such a     *)
(* date.                                                                   *)
(***************************************************************************)
C29_TradingDay ==
    [][lpc = "walk" =>
          LET off == \/ Weekday(previous_day) = 5
                     \/ Weekday(previous_day) = 6
                     \/ previous_day \in us_holidays
          IN  /\ off => (lpc' = "walk" /\ previous_day' = previous_day - 1)
              /\ ~off => (lpc' = "done" /\ previous_day' = previous_day)
      ]_vars

\* the walk has just gone back from a Monday that is a holiday to the Sunday before
C29_Witness ==
    /\ lpc = "walk"
    /\ Weekday(previous_day) = 6
    /\ previous_day + 1 \in us_holidays
    /\ previous_day + 1 < EasternDate(lnow)

(***************************************************************************)
(* C24: a symbol is accepted if and only if it is 1 to 5 upper case        *)
(* letters, optionally followed by a dot and one upper case letter.        *)
(***************************************************************************)
C24_AcceptedIffTicker ==
    LET n == Len(sym)
        letters(k) == k \in 1..5 /\ \A i \in 1..k : sym[i] \in UpperLetters
    IN  svalid <=> \/ letters(n)
                   \/ n >= 3 /\ letters(n - 2) /\ sym[n - 1] = "." /\ sym[n] \in UpperLetters

(***************************************************************************)
(* C30: the normalization of a symbol (its text before the first dot, in   *)
(* upper case) is idempotent, and it gives a string and its upper case     *)
(* form, like brk.b and BRK.B, the same result.                            *)
(***************************************************************************)
C30_NormalizeIdempotent ==
    /\ Normalize(snorm) = snorm
    /\ Normalize([i \in 1..Len(sym) |-> IF sym[i] = "a" THEN "A" ELSE sym[i]]) = snorm

\* a lower case string with a suffix, like brk.b, has been normalized
C30_Witness ==
    /\ sym = <<"a", "a", "a", ".", "a">>
    /\ snorm = <<"A", "A", "A">>

(***************************************************************************)
(* C23: when its quote request succeeds, screen_stocks returns one record  *)
(* per valid requested symbol: as many records as valid symbols, no two    *)
(* with the same symbol, each with the market capitalization resolved for  *)
(* the symbol it stands for.  Stated for the screen_stocks call of line    *)
(* 387, on the symbols the call fetches.                                   *)
(***************************************************************************)
C23_OneRecordPerSymbol ==
    (cpc = "done" /\ ~world.screenFail) =>
        LET records == ScreenStocks(cfetch, world) IN
        /\ Len(records) = Len(cfetch)
        /\ \A i, j \in 1..Len(records) : records[i].symbol = records[j].symbol => i = j
        /\ \A i \in 1..Len(records) : records[i].market_cap = world.cap[cfetch[i]]

(***************************************************************************)
(* C25: when the batched news request fails, get_stock_sentiment_batch     *)
(* gives every requested symbol the score 0 and get_buy_sell_volume ends   *)
(* as it does when no article mentions any symbol: every symbol is         *)
(* classified with neutral sentiment.                                      *)
(***************************************************************************)
C25_NewsFailureIsNeutral ==
    (cpc = "done" /\ world.newsFail) =>
        LET quiet == [world EXCEPT !.newsFail = FALSE,
                                   !.news = [s \in DOMAIN world.news |-> NewsNone]]
            neutral == GbsFetch(cfetch, creq.supplied, EmptyDict, EmptyDict, ctime, quiet)
        IN  /\ \A s \in Range(cfetch) : SentimentBatch(cfetch, world)[s] = 0
            /\ cres = neutral.results
            /\ (cout = "raised") = neutral.raised

\* the news request failed though good news existed, and the trade of 6 shares
\* inside the spread was split with the neutral score, 4 bought and 1 sold
C25_Witness ==
    /\ cpc = "done" /\ cout = "returned"
    /\ world.newsFail
    /\ world.news[SymA] = NewsGood
    /\ world.bars[SymA] = BarsTrades
    /\ world.hist[SymA] = HistFail
    /\ creq.symbols = <<SymA>>
    /\ creq.supplied = Supplied([s \in {SymA} |-> <<198, 202>>])
    /\ cres[SymA] = <<3 + 4, 4 + 1>>

(***************************************************************************)
(* C26: a get_buy_sell_volume call sends at most one news request: one for *)
(* all the symbols it has to fetch, however many, and none when every      *)
(* symbol is served from the cache.                                        *)
(***************************************************************************)
C26_OneNewsRequest ==
    cpc = "done" =>
        /\ creqs.news <= 1
        /\ cfetch = <<>> => creqs.news = 0
        /\ cfetch # <<>> => creqs.news = 1

\* a call that fetched two symbols has sent one news request
C26_Witness ==
    /\ cpc = "done"
    /\ Len(cfetch) = 2
    /\ creqs.news = 1

DelayedByOther(t, u) ==
    /\ tpc[t] = "want"
    /\ tkind[t] \in {"tradier", "alpaca"}
    /\ SleepTime(tkind[t], now) <= 0
    /\ tpc[u] = "sleep"
    /\ tkind[u] \in {"tradier", "alpaca"} \ {tkind[t]}
    /\ md_lock = u
    /\ twake[u] > now

\* a step changes the time-of-last-request of at most the limiter acquired
OwnStampOnly ==
    /\ last_request_time' # last_request_time =>
           last_alpaca_request_time' = last_alpaca_request_time
    /\ last_alpaca_request_time' # last_alpaca_request_time =>
           last_request_time' = last_request_time

(***************************************************************************)
(* C34: the Tradier and the Alpaca limiter of MarketData are independent:  *)
(* an acquisition of one never waits for the enforced sleep of the other,  *)
(* and an acquisition of one leaves the other's time-of-last-request       *)
(* unchanged.                                                              *)
(***************************************************************************)
C34_LimitersIndependent ==
    /\ [](\A t, u \in Tasks : ~DelayedByOther(t, u))
    /\ [][OwnStampOnly]_vars

\* the quote of s has no usable bid or ask: missing (quote.get's default 0), null or 0
NoUsableBidAsk(q) == q.bid \in {0, None} \/ q.ask \in {0, None}

\* the pair the final loop reads for symbol (line 527)
PairUsed(symbol) == Get(BidAskData(cfetch, creq.supplied, world), symbol, <<0, 0>>)

(***************************************************************************)
(* C35: in a finished call, a symbol whose bid/ask was fetched from a      *)
(* quote with no usable bid or ask (missing, null or 0) is given the pair  *)
(* (last * 0.995, last * 1.005); a pair the caller supplied is used as it  *)
(* is, and a supplied (0, 0) gives the symbol the trend-based split of the *)
(* no-bid/ask tier.                                                        *)
(***************************************************************************)
C35_BidAskPair ==
    cpc = "done" =>
        \A i \in 1..Len(cfetch) :
            LET symbol == cfetch[i]
                q == world.quote[symbol]
                last_price == PyOr(PyOr(q.last, q.close), 0)
            IN  IF creq.supplied.given
                THEN /\ PairUsed(symbol) = creq.supplied.data[symbol]
                     /\ PairUsed(symbol) = <<0, 0>> =>
                          /\ cout = "returned"
                          /\ cres[symbol] =
                               TrendSplit(Get(TotalVolumes(ScreenStocks(cfetch, world), EmptyDict),
                                              symbol, 0),
                                          Get(PriceTrends(cfetch, world), symbol, 0))
                ELSE (~world.quoteFail /\ NoUsableBidAsk(q)) =>
                          PairUsed(symbol) = <<SpreadBid(last_price), SpreadAsk(last_price)>>

(***************************************************************************)
(* The momentum-window scenario (SpecWindow): the loop of line 577 over a  *)
(* sequence of trades longer than momentum_window, so that trades leave    *)
(* the window.  A trade is at or above the ask (203), inside the spread    *)
(* (200) or at or below the bid (197), and a sequence has at most MaxRuns  *)
(* runs of equal prices.                                                   *)
(***************************************************************************)
MaxWindowTrades == 23
MaxRuns == 3
WindowPrices == {197, 200, 203}
WindowPairs == {<<198, 202>>, <<200, 200>>}

Runs(trades) ==
    IF trades = <<>> THEN 0
    ELSE 1 + Cardinality({j \in 1..(Len(trades) - 1) : trades[j].price # trades[j + 1].price})

InitWindow ==
    /\ now = StartTime /\ LimInit /\ GbsInit /\ WebIdle /\ OtherIdle /\ ReqIdle /\ TrdIdle /\ CalIdle /\ SymIdle
    /\ \E ba \in WindowPairs, trend \in {-1, 1} :
          kin = [bid |-> ba[1], ask |-> ba[2], trend |-> trend, s100 |-> 0]
    /\ ktrades = <<>>
    /\ kst = ClassifyStart

WindowTrade(price) ==
    /\ Len(ktrades) < MaxWindowTrades
    /\ ktrades' = Append(ktrades, [price |-> price, volume |-> 3])
    /\ Runs(ktrades') <= MaxRuns
    /\ kst' = ClassifyStep(kst, ktrades', Len(ktrades) + 1,
                           kin.bid, kin.ask, kin.trend, kin.s100)
    /\ UNCHANGED <<now, kin, limVars, gbsVars, auxVars>>

NextWindow == \E price \in WindowPrices : WindowTrade(price)

SpecWindow == InitWindow /\ [][NextWindow]_vars

\* the trades j in [max(0, i - W), i - 1] at the start of trade i = Len(trades),
\* as 1-based positions
LastW(trades) == Max(1, Len(trades) - momentum_window + 1)..Len(trades)

CountAtOrAboveAsk(trades) == Cardinality({j \in LastW(trades) : trades[j].price >= kin.ask})
CountAtOrBelowBid(trades) == Cardinality({j \in LastW(trades) : trades[j].price <= kin.bid})
CountTalliedSells(trades) ==
    Cardinality({j \in LastW(trades) : trades[j].price <= kin.bid /\ trades[j].price < kin.ask})

\* a trade inside the spread is split by the ratio of the given window counts
SplitByCounts(recent_buys, recent_sells) ==
    LET trade == ktrades'[Len(ktrades')]
        r == BuyRatio(recent_buys, recent_sells, kin.trend, kin.s100)
    IN  (trade.price < kin.ask /\ trade.price > kin.bid) =>
            /\ kst'.buy_volume = kst.buy_volume + BuyShare(trade.volume, r)
            /\ kst'.sell_volume = kst.sell_volume + SellShare(trade.volume, r)

(***************************************************************************)
(* C33, as stated: at the start of every trade i, recent_buys and          *)
(* recent_sells are the numbers of trades j in [max(0, i - 20), i - 1]     *)
(* with price_j >= ask and with price_j <= bid, and a trade inside the     *)
(* spread is split with momentum ratio recent_buys / (recent_buys +        *)
(* recent_sells), or 0.5 when both are 0.                                  *)
(***************************************************************************)
C33_AsStated ==
    /\ [](/\ kst.recent_buys = CountAtOrAboveAsk(ktrades)
          /\ kst.recent_sells = CountAtOrBelowBid(ktrades))
    /\ [][SplitByCounts(CountAtOrAboveAsk(ktrades), CountAtOrBelowBid(ktrades))]_vars

(***************************************************************************)
(* C33, amended: at the start of every trade i, recent_buys is the number  *)
(* of trades j in [max(0, i - 20), i - 1] with price_j >= ask, and         *)
(* recent_sells the number of those with price_j <= bid and price_j < ask  *)
(* (the trades tallied as sells); a trade inside the spread is split with  *)
(* the momentum ratio of these two counts, or 0.5 when both are 0.         *)
(***************************************************************************)
C33_TallyIsRecount ==
    /\ [](/\ kst.recent_buys = CountAtOrAboveAsk(ktrades)
          /\ kst.recent_sells = CountTalliedSells(ktrades))
    /\ [][SplitByCounts(CountAtOrAboveAsk(ktrades), CountTalliedSells(ktrades))]_vars

\* more than 20 trades, the first of them a buy that has left the window, which
\* still holds buys and sells, and the last trade inside the spread (recounted)
C33_Witness ==
    /\ Len(ktrades) > momentum_window + 1
    /\ ktrades[1].price >= kin.ask
    /\ ktrades[Len(ktrades)].price < kin.ask
    /\ ktrades[Len(ktrades)].price > kin.bid
    /\ kst.recent_buys > 0
    /\ kst.recent_sells > 0
    /\ kst.buy_volume + kst.sell_volume > 0

\* S: the sum of the volumes of the trades processed
RECURSIVE SumVolumes(_)
SumVolumes(trades) ==
    IF trades = <<>> THEN 0 ELSE Head(trades).volume + SumVolumes(Tail(trades))

\* m: the number of the trades processed that lie inside the spread
MidTrades(trades) ==
    Cardinality({j \in 1..Len(trades) : trades[j].price < kin.ask /\ trades[j].price > kin.bid})

(***************************************************************************)
(* C36: for a symbol classified per trade, buy_volume and sell_volume are  *)
(* non-negative and S - m <= buy_volume + sell_volume <= S, with S the sum *)
(* of the trades' volumes and m the number of trades inside the spread.    *)
(***************************************************************************)
C36_VolumeConserved ==
    ~kst.raised =>
        /\ kst.buy_volume >= 0
        /\ kst.sell_volume >= 0
        /\ SumVolumes(ktrades) - MidTrades(ktrades) <= kst.buy_volume + kst.sell_volume
        /\ kst.buy_volume + kst.sell_volume <= SumVolumes(ktrades)

\* three trades, two of them inside the spread and each of these losing a share
C36_Witness ==
    /\ ~kst.raised
    /\ Len(ktrades) = 3
    /\ MidTrades(ktrades) = 2
    /\ kst.buy_volume + kst.sell_volume = SumVolumes(ktrades) - 2
    /\ kst.buy_volume > 0
    /\ kst.sell_volume > 0

SentimentUnavailable(symbol) == world.newsFail \/ ~world.news[symbol].found

\* 0.5 * momentum_buy_ratio + 0.5 * trend_adjustment, as a fraction
RatioWithoutSentiment(recent_buys, recent_sells, trend) ==
    LET total_recent == recent_buys + recent_sells
        mnum == IF total_recent > 0 THEN recent_buys ELSE 1
        mden == IF total_recent > 0 THEN total_recent ELSE 2
        trend10 == IF trend > 0 THEN 6 ELSE IF trend < 0 THEN 4 ELSE 5
    IN  [num |-> 10 * mnum + mden * trend10, den |-> 20 * mden]

\* the symbols of the call that reach the per-trade classification
ClassifiedPerTrade(symbol) ==
    /\ PairUsed(symbol)[1] \notin {0, None}
    /\ PairUsed(symbol)[2] \notin {0, None}
    /\ FetchTimesales(symbol, world) # <<>>

(***************************************************************************)
(* C38: in a call that returned, every trade inside the spread of a symbol *)
(* whose sentiment is unavailable is split with buy ratio                  *)
(* 0.5 * momentumBuyRatio + 0.5 * trendAdjustment (no sentiment term); with *)
(* sentiment available the weights are 0.5, 0.3 and 0.2.                   *)
(***************************************************************************)
C38_WeightsWithoutSentiment ==
    (cpc = "done" /\ cout = "returned") =>
        \A i \in 1..Len(cfetch) :
            LET symbol == cfetch[i]
                trades == FetchTimesales(symbol, world)
                bid == PairUsed(symbol)[1]
                ask == PairUsed(symbol)[2]
                trend == Get(PriceTrends(cfetch, world), symbol, 0)
                s100 == Get(SentimentBatch(cfetch, world), symbol, 0)
            IN  ClassifiedPerTrade(symbol) =>
                    \A k \in 1..Len(trades) :
                        (trades[k].price < ask /\ trades[k].price > bid) =>
                            LET st == ClassifyUpTo(trades, k - 1, bid, ask, trend, s100)
                                used == BuyRatio(st.recent_buys, st.recent_sells, trend, s100)
                                claimed == IF SentimentUnavailable(symbol)
                                           THEN RatioWithoutSentiment(st.recent_buys,
                                                                      st.recent_sells, trend)
                                           ELSE used
                            IN  used.num * claimed.den = claimed.num * used.den

(***************************************************************************)
(* C39: when the market is open at now, the lookback window is             *)
(* [now - 45 min, now - 30 min] and lies within the hours of the current   *)
(* session: it does not start before that day's open.                      *)
(***************************************************************************)
C39_WindowInSession ==
    (lpc = "done" /\ lopen) =>
        LET hours == get_market_hours(EasternDate(lnow), MARKET_OPEN_HOUR, MARKET_OPEN_MINUTE,
                                      MARKET_CLOSE_HOUR, MARKET_CLOSE_MINUTE)
        IN  /\ lwindow = <<lnow - 45, lnow - 30>>
            /\ hours[1] <= lwindow[1]
            /\ lwindow[2] <= hours[2]

(***************************************************************************)
(* The per-client limiter of the HTTP layer, src/app.py lines 32-59        *)
(* (SpecWeb): the calls of rate_limit(client_ip) that one client's         *)
(* requests make, as the clock advances.  Time is in ticks of 1/666 s.     *)
(***************************************************************************)
MAX_REQUESTS_PER_MINUTE == 60
RateWindow == 39960      \* the 60 (seconds) of lines 46 and 51

HttpStep == 19980        \* the clock advances by 30 s
HttpHorizon == 80600     \* and stops 120 s after the start

ClientIp == "10.0.0.1"

\* lines 45-47: the entries older than 60 s are deleted
CleanUp(counts, current_time) ==
    [ip \in {i \in DOMAIN counts : ~(current_time - counts[i][2] > RateWindow)} |-> counts[ip]]

\* lines 43-59: the answer, and request_counts when the function returns
RateLimitResult(counts, client_ip, current_time) ==
    LET cleaned == CleanUp(counts, current_time) IN
    IF client_ip \in DOMAIN cleaned
    THEN LET count == cleaned[client_ip][1]
             timestamp == cleaned[client_ip][2]
         IN  IF current_time - timestamp < RateWindow
             THEN IF count >= MAX_REQUESTS_PER_MINUTE
                  THEN [allowed |-> FALSE, counts |-> cleaned]
                  ELSE [allowed |-> TRUE,
                        counts |-> Put(cleaned, client_ip, <<count + 1, timestamp>>)]
             ELSE [allowed |-> TRUE, counts |-> Put(cleaned, client_ip, <<1, current_time>>)]
    ELSE [allowed |-> TRUE, counts |-> Put(cleaned, client_ip, <<1, current_time>>)]

\* update_quotes lines 68-72 (and screen_stocks 215-219): one request of the client
rate_limit(client_ip) ==
    /\ LET r == RateLimitResult(request_counts, client_ip, now) IN
       /\ request_counts' = r.counts
       /\ hout' = IF r.allowed THEN "allowed" ELSE "rejected"
       /\ hallowed' = IF r.allowed THEN <<hallowed[1], hallowed[2] + 1>> ELSE hallowed
    /\ UNCHANGED <<now, limVars, gbsVars, clsVars, reqVars, trdVars, calVars, symVars, ocall>>

HttpTick ==
    /\ now + HttpStep <= HttpHorizon
    /\ now' = now + HttpStep
    /\ hallowed' = <<hallowed[2], 0>>
    /\ hout' = "none"
    /\ UNCHANGED <<request_counts, limVars, gbsVars, clsVars, reqVars, trdVars, calVars,
                   symVars, ocall>>

NextWeb == rate_limit(ClientIp) \/ HttpTick

SpecWeb == Init /\ [][NextWeb]_vars

\* a rejected request leaves the client's entry as it was
RejectedLeavesEntry ==
    (hout' = "rejected" /\ now' = now) =>
        /\ ClientIp \in DOMAIN request_counts
        /\ ClientIp \in DOMAIN request_counts'
        /\ request_counts'[ClientIp] = request_counts[ClientIp]

(***************************************************************************)
(* C40: of one client's requests, rate_limit allows at most                *)
(* MAX_REQUESTS_PER_MINUTE within any interval of 60 seconds (here: at two *)
(* instants 30 s apart), and a rejected request leaves the client's        *)
(* counter and window start unchanged.                                     *)
(***************************************************************************)
C40_AtMostMaxPerMinute ==
    /\ [](hallowed[1] + hallowed[2] <= MAX_REQUESTS_PER_MINUTE)
    /\ [][RejectedLeavesEntry]_vars

(***************************************************************************)
(* Two get_buy_sell_volume calls in flight on one MarketData instance      *)
(* (SpecConcurrent).  A call runs without suspension from line 322 to its  *)
(* first upstream request (GbsCall, OtherCall); the event loop may run the *)
(* other call while it awaits its upstream requests; its writes to         *)
(* buy_sell_cache, all made with the current_time of line 335, follow      *)
(* (GbsComplete, OtherComplete).                                           *)
(***************************************************************************)
ConcWorlds ==
    {MkWorld(d, d, FALSE, FALSE, FALSE) :
        d \in {SymData(QuoteFull(5), HistUp, BarsEmpty, NewsNone),
               SymData(QuoteFull(7), HistUp, BarsTrades, NewsNone)}}

\* lines 322-354 of the second call
OtherCall(symbols, force_refresh, supplied, w) ==
    /\ ocall.pc = "idle"
    /\ LET b == GbsBegin(symbols, force_refresh, buy_sell_cache, now) IN
       /\ buy_sell_cache' = b.cache
       /\ ocall' = [pc |-> IF b.to_fetch = <<>> THEN "done" ELSE "running",
                    req |-> [symbols |-> symbols, force_refresh |-> force_refresh,
                             supplied |-> supplied],
                    time |-> now,
                    fetch |-> b.to_fetch,
                    res |-> b.results,
                    world |-> w,
                    out |-> IF b.to_fetch = <<>> THEN "returned" ELSE "none"]
    /\ ncalls' = ncalls + 1
    /\ UNCHANGED <<now, world, cpc, creq, ctime, cfetch, cres, cout, creqs, cat, prev>>
    /\ UNCHANGED <<limVars, clsVars, reqVars, trdVars, calVars, symVars, webVars>>

\* lines 356-618 of the second call
OtherComplete ==
    /\ ocall.pc = "running"
    /\ LET r == GbsFetch(ocall.fetch, ocall.req.supplied, ocall.res, buy_sell_cache,
                         ocall.time, ocall.world) IN
       /\ buy_sell_cache' = r.cache
       /\ ocall' = [ocall EXCEPT !.pc = "done", !.res = r.results,
                                 !.out = IF r.raised THEN "raised" ELSE "returned"]
    /\ UNCHANGED <<now, world, cpc, creq, ctime, cfetch, cres, cout, creqs, cat, prev, ncalls>>
    /\ UNCHANGED <<limVars, clsVars, reqVars, trdVars, calVars, symVars, webVars>>

\* the caller of the second call has its answer
OtherRetire ==
    /\ ocall.pc = "done"
    /\ ocall' = NoOther
    /\ UNCHANGED <<now, gbsVars, limVars, clsVars, reqVars, trdVars, calVars, symVars, webVars>>

NextConcurrent ==
    \/ /\ ncalls < MaxCalls
       /\ \E force_refresh \in BOOLEAN, w \in ConcWorlds :
             GbsCall(<<SymA>>, force_refresh, NotSupplied, w)
    \/ GbsComplete
    \/ GbsRetire
    \/ /\ ncalls < MaxCalls
       /\ \E force_refresh \in BOOLEAN, w \in ConcWorlds :
             OtherCall(<<SymA>>, force_refresh, NotSupplied, w)
    \/ OtherComplete
    \/ OtherRetire
    \/ GbsTick

SpecConcurrent == Init /\ [][NextConcurrent]_vars

\* no step replaces an entry of the cache by one with an older timestamp
TimestampKept ==
    \A symbol \in DOMAIN buy_sell_cache \cap DOMAIN buy_sell_cache' :
        buy_sell_cache'[symbol].timestamp >= buy_sell_cache[symbol].timestamp

(***************************************************************************)
(* C32: under every interleaving of concurrent get_buy_sell_volume calls   *)
(* the timestamp of a symbol's cache entry never decreases, and every      *)
(* entry present has its buy volume, its sell volume and its timestamp.    *)
(***************************************************************************)
C32_CacheTimestampMonotonic ==
    /\ [][TimestampKept]_vars
    /\ [](\A symbol \in DOMAIN buy_sell_cache :
             DOMAIN buy_sell_cache[symbol] = {"buy_volume", "sell_volume", "timestamp"})

====
